---- MODULE Spec2Model ----
(***************************************************************************)
(* Verification model of poy/adk-rnd.                                      *)
(*                                                                         *)
(* Each program is modelled under its own specification:                   *)
(*   SpecLRO   mcp/long_running_tasks_mcp/main.go: the pass-through proxy  *)
(*             and its task engine (Run, startLongRunningTask,             *)
(*             checkLongRunningTaskHandler).                               *)
(*   SpecHITL  mcp/human_in_the_loop_wrapper/main.go: the consent proxy    *)
(*             (consentProxyHandler, handleApproval) on top of its copy of *)
(*             the task engine.                                            *)
(*   SpecSM    the session manager of mcp/sqlite_mcp (CreateDatabase,      *)
(*             GetDB, cleanupExpired).                                     *)
(*   SpecGate  the consent proxy whose configuration names the tools that  *)
(*             need approval (mcp/constraints_mcp/README.md:160-418).      *)
(*   SpecPass  the constraints proxy (mcp/tasks_mcp/main.go:236-306).      *)
(*   SpecRenewal  the session manager as TestSessionRenewal drives it.     *)
(*   SpecTasks the tasks server (mcp/tasks_mcp/main.go:1-169).             *)
(*   SpecData  the static JSON server (mcp/static_json_mcp/main.go).       *)
(*   SpecRace  the session manager with the critical section of GetDB      *)
(*             taken apart.                                                *)
(*   SpecLocks the consent proxy with its mutexes taken apart.             *)
(*   SpecEquiv the two copies of the task engine side by side.             *)
(* SpecHITLFair, SpecSMFair and SpecLocksFair add the fairness the         *)
(* liveness properties need.                                               *)
(* Goroutines are processes with a program counter; a step is the code     *)
(* between two points where another goroutine can observe or interfere.    *)
(***************************************************************************)
EXTENDS Integers, Sequences, FiniteSets, TLC

VARIABLES
    \* ---- the task engine (both proxies) ----
    nextID,            \* var nextID uint64
    tasks,             \* the *LongRunningTask objects, one per Run call
    longRunningTasks,  \* var longRunningTasks sync.Map: ID -> task
    handler,           \* the invocations of the proxy handler that started a task
    worker,            \* the goroutine Run starts for each task
    poller,            \* the invocation of checkLongRunningTaskHandler in progress
    upstream,          \* per request, how often mcpClient.CallTool received it
    \* ---- human_in_the_loop_wrapper ----
    callQueue,         \* var callQueue map[int]*pendingCall (main.go:29)
    nextCallID,        \* var nextCallID = 1 (main.go:31)
    ctxDone,           \* ctx.Done() of each invocation's context is closed
    approver,          \* the invocations of handleApproval that hold a pendingCall
    decided,           \* history: pending id -> the decisions that found its entry
    \* ---- sqlite_mcp session manager ----
    now,               \* the clock time.Now() reads
    sessions,          \* SessionManager.sessions
    files,             \* the database files that exist under rootDir
    idSeq,             \* how many session ids generateSessionID has produced
    creator,           \* the invocations of CreateDatabase waiting for m.mu
    nextSweep,         \* when the ticker of cleanupLoop fires next
    deadline,          \* history: session id -> the ExpiresAt it had last
    expiration,        \* SessionManager.expiration
    mu,                \* SessionManager.mu: Free, or the operation that holds it
    getter,            \* the invocation of GetDB inside its critical section
    callQueueLock,     \* var callQueueLock sync.Mutex: Free, or the goroutine that holds it
    \* ---- static_json_mcp ----
    jsonArray,         \* var jsonArray []any, the array read from the file
    \* ---- the task engine of human_in_the_loop_wrapper beside the other copy ----
    hitlEngine,        \* its nextID, its tasks and its longRunningTasks
    \* ---- both ----
    last               \* the step just taken: the operation and what it returned

engineVars == <<nextID, tasks, longRunningTasks, handler, worker, poller, upstream>>
hitlVars == <<callQueue, nextCallID, ctxDone, approver, decided>>
lockVars == <<mu, getter, callQueueLock>>
smVars == <<now, sessions, files, idSeq, creator, nextSweep, deadline, expiration,
            lockVars>>
dataVars == <<jsonArray>>
copyVars == <<hitlEngine>>
restVars == <<dataVars, copyVars>>
vars == <<engineVars, hitlVars, smVars, restVars, last>>

(***************************************************************************)
(* Bounds of the model.                                                    *)
(***************************************************************************)
MaxTasks == 2      \* SpecLRO: tool calls put behind a long-running task
MaxCalls == 2      \* SpecHITL: tool calls that pass their constraint
MaxCreates == 2    \* invocations of CreateDatabase
MaxTime == 5       \* the clock stops here
MaxUpdates == 2    \* SpecTasks: status updates a task can take
MaxLen == 3        \* SpecData: elements of the JSON array
IntBits == 5       \* SpecData: the width of int (64 in the build)


(***************************************************************************)
(* Strings are sequences of one-character strings.                         *)
(***************************************************************************)
DigitChars == <<"0", "1", "2", "3", "4", "5", "6", "7", "8", "9">>

RECURSIVE FormatUint(_)
\* fmt.Sprintf("%d", n) for an unsigned n
FormatUint(n) ==
    IF n < 10 THEN <<DigitChars[n + 1]>>
    ELSE Append(FormatUint(n \div 10), DigitChars[(n % 10) + 1])

IsDigit(ch) == \E i \in 1..10 : DigitChars[i] = ch
DigitVal(ch) == (CHOOSE i \in 1..10 : DigitChars[i] = ch) - 1

RECURSIVE ParseDigits(_)
ParseDigits(s) ==
    IF s = <<>> THEN 0
    ELSE 10 * ParseDigits(SubSeq(s, 1, Len(s) - 1)) + DigitVal(s[Len(s)])

\* strconv.Atoi: an optional sign, then one or more decimal digits
Atoi(s) ==
    LET signed == s # <<>> /\ s[1] \in {"+", "-"}
        body == IF signed THEN Tail(s) ELSE s
    IN  IF body = <<>> \/ \E i \in 1..Len(body) : ~IsDigit(body[i])
        THEN [err |-> TRUE, val |-> 0]
        ELSE [err |-> FALSE,
              val |-> IF signed /\ s[1] = "-" THEN 0 - ParseDigits(body)
                      ELSE ParseDigits(body)]

(***************************************************************************)
(* Tool calls and their constraints.                                       *)
(* A constraint is a CEL expression over the variable args; the model      *)
(* holds expressions of the shape the README gives, in abstract syntax.    *)
(***************************************************************************)
NoConstraint == [op |-> "empty", field |-> "", n |-> 0]
SizeGt(f, n) == [op |-> "size_gt", field |-> f, n |-> n]
Field(f) == [op |-> "field", field |-> f, n |-> 0]

\* the constraints file: map[string]string, tool name -> expression
constraints ==
    [add_task |-> SizeGt("description", 3),
     list_tasks |-> NoConstraint,
     mark_task_done |-> Field("id")]

\* the requests (tool name and arguments) the model's callers send
RequestList ==
    << [name |-> "add_task", args |-> [description |-> <<"a", "b">>]],
       [name |-> "add_task", args |-> [description |-> <<"a", "b", "c", "d">>]],
       [name |-> "add_task", args |-> [title |-> <<"a", "b", "c", "d">>]],
       [name |-> "list_tasks", args |-> [title |-> <<>>]],
       [name |-> "mark_task_done", args |-> [id |-> <<"1">>]] >>

Requests == 1..Len(RequestList)

\* prg.Eval of the compiled expression: a boolean, another value, or an error
CelEval(expr, args) ==
    IF expr.field \notin DOMAIN args
    THEN [err |-> TRUE, type |-> "error", bool |-> FALSE]
    ELSE IF expr.op = "size_gt"
         THEN [err |-> FALSE, type |-> "bool",
               bool |-> Len(args[expr.field]) > expr.n]
         ELSE [err |-> FALSE, type |-> "string", bool |-> FALSE]

evalConstraintNoCheck(constraintExpr, args) == [ok |-> TRUE, err |-> FALSE]

\* evalConstraint: (bool, error)
evalConstraint(constraintExpr, args) ==
    IF constraintExpr = NoConstraint
    THEN [ok |-> TRUE, err |-> FALSE]
    ELSE LET out == CelEval(constraintExpr, args)
         IN  IF out.err THEN [ok |-> FALSE, err |-> TRUE]
             ELSE IF out.type # "bool" THEN [ok |-> FALSE, err |-> TRUE]
             ELSE [ok |-> out.bool, err |-> FALSE]

(***************************************************************************)
(* Tool results (mcp.CallToolResult).  rq is the request a result of the   *)
(* upstream server answers, id the task id a text names.                   *)
(***************************************************************************)
Result(kind, isError, rq, id) ==
    [kind |-> kind, isError |-> isError, rq |-> rq, id |-> id]

NilResult == Result("nil", FALSE, 0, <<>>)
ConstraintEvalError == Result("constraint failed to evaluate", TRUE, 0, <<>>)
ConstraintFalse == Result("constraint returned false", TRUE, 0, <<>>)
Cancelled == Result("Cancelled while waiting for approval", TRUE, 0, <<>>)
Rejected == Result("User rejected the request", TRUE, 0, <<>>)
ForwardError == Result("Forward error", TRUE, 0, <<>>)
UpstreamResult(rq) == Result("upstream", FALSE, rq, <<>>)
TaskStarted(id) == Result("Started long running task with ID", FALSE, 0, id)
TaskPending(id) == Result("Task is pending", FALSE, 0, id)
UnknownTask(id) == Result("unknown task ID", TRUE, 0, id)
MissingArgument == Result("missing required argument", TRUE, 0, <<>>)

(***************************************************************************)
(* What a step returned to its caller.  Every step sets last: a step that  *)
(* returns nothing to a caller sets it to Internal.                        *)
(*   op     the handler that returned                                      *)
(*   call   the task slot of the invocation (0: it started no task)        *)
(*   tool   the tool called through the pass-through proxy                 *)
(*   rq     the request sent to the consent proxy (its place in            *)
(*          RequestList)                                                   *)
(*   id     the pending id of a decision                                   *)
(*   task   the task id of a status check                                  *)
(*   reply  the tool result returned                                       *)
(*   http   the HTTP status written                                        *)
(***************************************************************************)
Event(op, call, tool, rq, id, task, reply, http) ==
    [op |-> op, call |-> call, tool |-> tool, rq |-> rq, id |-> id,
     task |-> task, reply |-> reply, http |-> http]
Internal == Event("internal", 0, "", 0, 0, <<>>, NilResult, 0)

(***************************************************************************)
(* The task engine: LongRunningTask, Run, startLongRunningTask,            *)
(* checkLongRunningTaskHandler.  The two proxies hold the same text        *)
(* (long_running_tasks_mcp/main.go:118-211, human_in_the_loop_wrapper/     *)
(* main.go:276-369).                                                       *)
(***************************************************************************)
NoTask == [ID |-> <<>>, status |-> "none", result |-> NilResult, mu |-> FALSE]
IdleHandler == [pc |-> "idle"]
IdleWorker == [pc |-> "none", callID |-> 0, out |-> NilResult]
IdlePoller == [pc |-> "idle", id |-> <<>>]

\* An invocation that starts a task takes the lowest free slot (the slots
\* are interchangeable).
NextSlot(procs, i) ==
    /\ procs[i].pc = "idle"
    /\ \A j \in 1..(i - 1) : procs[j].pc # "idle"

AddUint64Stale(n) == IF n = 0 THEN 1 ELSE n

\* atomic.AddUint64(&nextID, 1): the new value of the counter
AddUint64(n) == n + 1

NewTaskDone(n) ==
    [ID |-> FormatUint(n), status |-> "Done", result |-> NilResult,
     mu |-> FALSE]

\* Run: the task literal
NewTask(n) ==
    [ID |-> FormatUint(n), status |-> "Pending", result |-> NilResult,
     mu |-> FALSE]

StoreDropped(m, id, c) == m

\* longRunningTasks.Store(t.ID, t)
Store(m, id, c) == [k \in DOMAIN m \cup {id} |-> IF k = id THEN c ELSE m[k]]

\* t.status = Done
StatusDone == "Done"

ResultDropped(out) == NilResult

\* t.result = out
ResultOf(out) == out

\* Run's goroutine after f has returned: lock t.mu and set the status
TaskLock(c) ==
    /\ worker[c].pc = "returned"
    /\ ~tasks[c].mu
    /\ tasks' = [tasks EXCEPT ![c].mu = TRUE, ![c].status = StatusDone]
    /\ worker' = [worker EXCEPT ![c].pc = "locked"]
    /\ last' = Internal
    /\ UNCHANGED <<nextID, longRunningTasks, handler, poller, upstream>>
    /\ UNCHANGED <<hitlVars, smVars, restVars>>

\* Run's goroutine: set the result; the deferred Unlock runs
TaskUnlock(c) ==
    /\ worker[c].pc = "locked"
    /\ tasks' = [tasks EXCEPT ![c].mu = FALSE,
                              ![c].result = ResultOf(worker[c].out)]
    /\ worker' = [worker EXCEPT ![c].pc = "finished"]
    /\ last' = Internal
    /\ UNCHANGED <<nextID, longRunningTasks, handler, poller, upstream>>
    /\ UNCHANGED <<hitlVars, smVars, restVars>>

\* startLongRunningTask after Run: store the task and return its id
TaskStore(c) ==
    /\ handler[c].pc = "ran"
    /\ longRunningTasks' = Store(longRunningTasks, tasks[c].ID, c)
    /\ handler' = [handler EXCEPT ![c].pc = "returned"]
    /\ last' = Event("proxy", c, "", 0, 0, <<>>, TaskStarted(tasks[c].ID), 0)
    /\ UNCHANGED <<nextID, tasks, worker, poller, upstream>>
    /\ UNCHANGED <<hitlVars, smVars, restVars>>

(***************************************************************************)
(* checkLongRunningTaskHandler.  The model runs one invocation at a time:  *)
(* invocations only read the tasks, so concurrent ones affect neither each *)
(* other nor anything else.                                                *)
(***************************************************************************)
StatusReplyPending(t, id) == TaskPending(id)

\* the switch on the status read under t.mu: the reply (on Pending it is
\* sent after the cooldown)
StatusReply(t, id) ==
    IF t.status = "Pending" THEN TaskPending(id) ELSE t.result

CooldownReplyReread(t, id) ==
    IF t.status = "Pending" THEN TaskPending(id) ELSE t.result

\* the reply after time.Sleep: "Task %s is pending", whatever the task t is
\* by then (the status read before the sleep chose this case)
CooldownReply(t, id) == TaskPending(id)

\* the id argument is missing
PollMissingArgument ==
    /\ poller.pc = "idle"
    /\ last' = Event("checkLongRunningTaskHandler", 0, "", 0, 0, <<>>, MissingArgument, 0)
    /\ UNCHANGED <<engineVars, hitlVars, smVars, restVars>>

\* no task under the id
PollUnknown(id) ==
    /\ poller.pc = "idle"
    /\ id \notin DOMAIN longRunningTasks
    /\ last' = Event("checkLongRunningTaskHandler", 0, "", 0, 0, id, UnknownTask(id), 0)
    /\ UNCHANGED <<engineVars, hitlVars, smVars, restVars>>

\* load the task, read its status under t.mu: Pending, the cooldown starts
PollPending(id) ==
    /\ poller.pc = "idle"
    /\ id \in DOMAIN longRunningTasks
    /\ LET t == tasks[longRunningTasks[id]]
       IN  /\ ~t.mu
           /\ t.status = "Pending"
    /\ poller' = [pc |-> "cooldown", id |-> id]
    /\ last' = Internal
    /\ UNCHANGED <<nextID, tasks, longRunningTasks, handler, worker, upstream>>
    /\ UNCHANGED <<hitlVars, smVars, restVars>>

\* the cooldown (3 s) is over: reply that the task is pending
PollCooldown ==
    /\ poller.pc = "cooldown"
    /\ poller' = IdlePoller
    /\ last' = Event("checkLongRunningTaskHandler", 0, "", 0, 0, poller.id,
                     CooldownReply(tasks[longRunningTasks[poller.id]],
                                   poller.id), 0)
    /\ UNCHANGED <<nextID, tasks, longRunningTasks, handler, worker, upstream>>
    /\ UNCHANGED <<hitlVars, smVars, restVars>>

\* load the task, read its status under t.mu: Done; read the result under
\* t.mu and return it
PollDone(id) ==
    /\ poller.pc = "idle"
    /\ id \in DOMAIN longRunningTasks
    /\ LET t == tasks[longRunningTasks[id]]
       IN  /\ ~t.mu
           /\ t.status # "Pending"
           /\ last' = Event("checkLongRunningTaskHandler", 0, "", 0, 0, id,
                            StatusReply(t, id), 0)
    /\ UNCHANGED <<engineVars, hitlVars, smVars, restVars>>

(***************************************************************************)
(* long_running_tasks_mcp: the proxy handler (main.go:87-110)              *)
(***************************************************************************)
\* the config file: a list of MethodConfig
LroConfigs ==
    << [MethodName |-> "run_agent", Enabled |-> TRUE],
       [MethodName |-> "list_agents", Enabled |-> FALSE] >>

\* the tools the upstream server lists
UpstreamTools == {"run_agent", "list_agents", "get_agent"}

lroMethodsAll == UpstreamTools

\* main.go:38-45
lroMethods ==
    {LroConfigs[i].MethodName :
        i \in {j \in 1..Len(LroConfigs) : LroConfigs[j].Enabled}}

Tasks == 1..MaxTasks

\* the variables of the consent proxy and of the session manager, as SpecLRO
\* holds them
HITLIdle ==
    /\ callQueue = <<>>
    /\ nextCallID = 1
    /\ ctxDone = <<>>
    /\ approver = {}
    /\ decided = <<>>

\* the variable of the static JSON server, as the other specifications hold it
DataIdle == jsonArray = <<>>

\* a task engine that has started nothing: var nextID uint64, no tasks, an
\* empty sync.Map
IdleEngine == [nextID |-> 0, tasks |-> <<>>, longRunningTasks |-> <<>>]

\* the second copy of the task engine, as the other specifications hold it
CopyIdle == hitlEngine = IdleEngine

RestIdle == DataIdle /\ CopyIdle

\* a sync.Mutex that nobody holds
Free == <<>>

\* no GetDB is inside its critical section
IdleGetter == [pc |-> "idle", key |-> 0, now |-> 0, info |-> <<>>]

\* the mutexes that the actions take and release within one step
LocksFree ==
    /\ mu = Free
    /\ getter = IdleGetter
    /\ callQueueLock = Free

SMIdle ==
    /\ LocksFree
    /\ now = 0
    /\ sessions = <<>>
    /\ files = {}
    /\ idSeq = 0
    /\ creator = {}
    /\ nextSweep = 0
    /\ deadline = <<>>
    /\ expiration = 0

InitLRO ==
    /\ nextID = 0
    /\ tasks = [c \in Tasks |-> NoTask]
    /\ longRunningTasks = <<>>
    /\ handler = [c \in Tasks |-> IdleHandler]
    /\ worker = [c \in Tasks |-> IdleWorker]
    /\ poller = IdlePoller
    /\ upstream = [c \in Tasks |-> 0]
    /\ last = Internal
    /\ HITLIdle
    /\ SMIdle
    /\ RestIdle

\* main.go:90-97: the tool is not behind a long-running task; forward the
\* call and return the result, or the forward error
ProxyForward(tool, fails) ==
    /\ tool \notin lroMethods
    /\ last' = Event("proxy", 0, tool, 0, 0, <<>>,
                     IF fails THEN ForwardError ELSE UpstreamResult(0), 0)
    /\ UNCHANGED <<engineVars, hitlVars, smVars, restVars>>

\* main.go:99-101 into startLongRunningTask and Run: allocate the id, build
\* the task, start the goroutine
ProxyRun(c, tool) ==
    /\ tool \in lroMethods
    /\ NextSlot(handler, c)
    /\ nextID' = AddUint64(nextID)
    /\ tasks' = [tasks EXCEPT ![c] = NewTask(nextID')]
    /\ worker' = [worker EXCEPT ![c] = [IdleWorker EXCEPT !.pc = "call"]]
    /\ handler' = [handler EXCEPT ![c].pc = "ran"]
    /\ last' = Event("Run", c, tool, 0, 0, <<>>, NilResult, 0)
    /\ UNCHANGED <<longRunningTasks, poller, upstream>>
    /\ UNCHANGED <<hitlVars, smVars, restVars>>

\* main.go:101-107, the work function: forward the call; its result, or the
\* forward error, is what the function returns
ProxyWork(c, fails) ==
    /\ worker[c].pc = "call"
    /\ upstream' = [upstream EXCEPT ![c] = @ + 1]
    /\ worker' = [worker EXCEPT ![c].pc = "returned",
           ![c].out = IF fails THEN ForwardError ELSE UpstreamResult(c)]
    /\ last' = Internal
    /\ UNCHANGED <<nextID, tasks, longRunningTasks, handler, poller>>
    /\ UNCHANGED <<hitlVars, smVars, restVars>>

\* the task ids the model's pollers ask for
LroPollIds == {FormatUint(i) : i \in 1..(MaxTasks + 1)}

NextLRO ==
    \/ \E tool \in UpstreamTools, fails \in BOOLEAN : ProxyForward(tool, fails)
    \/ \E c \in Tasks, tool \in UpstreamTools : ProxyRun(c, tool)
    \/ \E c \in Tasks : TaskStore(c)
    \/ \E c \in Tasks, fails \in BOOLEAN : ProxyWork(c, fails)
    \/ \E c \in Tasks : TaskLock(c)
    \/ \E c \in Tasks : TaskUnlock(c)
    \/ PollMissingArgument
    \/ \E id \in LroPollIds : PollUnknown(id)
    \/ \E id \in LroPollIds : PollPending(id)
    \/ PollCooldown
    \/ \E id \in LroPollIds : PollDone(id)

SpecLRO == InitLRO /\ [][NextLRO]_vars

(***************************************************************************)
(* human_in_the_loop_wrapper: consentProxyHandler (main.go:125-150)        *)
(***************************************************************************)
Calls == 1..MaxCalls

InitHITL ==
    /\ nextID = 0
    /\ tasks = [c \in Calls |-> NoTask]
    /\ longRunningTasks = <<>>
    /\ handler = [c \in Calls |-> IdleHandler]
    /\ worker = [c \in Calls |-> IdleWorker]
    /\ poller = IdlePoller
    /\ upstream = [c \in Calls |-> 0]
    /\ callQueue = <<>>
    /\ nextCallID = 1
    /\ ctxDone = [c \in Calls |-> FALSE]
    /\ approver = {}
    /\ decided = <<>>
    /\ last = Internal
    /\ SMIdle
    /\ RestIdle

\* lines 128-132: the constraint fails to evaluate or returns false; the
\* handler returns an error result
InterceptRejected(rq) ==
    LET req == RequestList[rq]
        ev == evalConstraint(constraints[req.name], req.args)
    IN  /\ ev.err \/ ~ev.ok
        /\ last' = Event("proxy", 0, "", rq, 0, <<>>,
                         IF ev.err THEN ConstraintEvalError ELSE ConstraintFalse, 0)
        /\ UNCHANGED <<engineVars, hitlVars, smVars, restVars>>

\* line 134 into startLongRunningTask (lines 324-332) and Run (lines
\* 355-369): the constraint holds; Run allocates the id, builds the task and
\* starts the goroutine; the task is stored and its id returned.  Nothing in
\* this specification reads longRunningTasks between Run and Store, so the
\* two are one step here (SpecLRO takes them apart).  The request of the
\* invocation in slot c is called c from here on.
InterceptRun(c, rq) ==
    LET req == RequestList[rq]
        ev == evalConstraint(constraints[req.name], req.args)
    IN  /\ NextSlot(handler, c)
        /\ ~ev.err /\ ev.ok
        /\ nextID' = AddUint64(nextID)
        /\ tasks' = [tasks EXCEPT ![c] = NewTask(nextID')]
        /\ worker' = [worker EXCEPT ![c] = [IdleWorker EXCEPT !.pc = "register"]]
        /\ longRunningTasks' = Store(longRunningTasks, tasks'[c].ID, c)
        /\ handler' = [handler EXCEPT ![c].pc = "returned"]
        /\ last' = Event("proxy", c, "", rq, 0, <<>>,
                         TaskStarted(tasks'[c].ID), 0)
        /\ UNCHANGED <<poller, upstream>>
        /\ UNCHANGED <<hitlVars, smVars, restVars>>

IncCallIDStale(n) == n

\* line 138: nextCallID++
IncCallID(n) == n + 1

\* lines 136-141, the work function under callQueueLock: allocate the id,
\* enter the queue.  ResponseC is the channel made here.
WorkerRegister(c) ==
    /\ worker[c].pc = "register"
    /\ nextCallID' = IncCallID(nextCallID)
    /\ callQueue' =
           [k \in DOMAIN callQueue \cup {nextCallID} |->
               IF k = nextCallID
               THEN [ID |-> nextCallID, Request |-> c, ResponseC |-> c]
               ELSE callQueue[k]]
    /\ worker' = [worker EXCEPT ![c].pc = "select", ![c].callID = nextCallID]
    /\ last' = Internal
    /\ UNCHANGED <<nextID, tasks, longRunningTasks, handler, poller, upstream>>
    /\ UNCHANGED <<ctxDone, approver, decided, smVars, restVars>>

CancelAll(done, c) == [d \in DOMAIN done |-> TRUE]

\* the ctx the work function closes over is the one handed to the handler
\* for this tool call (main.go:125, 146): its Done channel is closed
Cancel(done, c) == [done EXCEPT ![c] = TRUE]

\* the context of the tool call is cancelled (by the transport); the model
\* lets it happen once the goroutine waits, the only place that reads it
CancelCtx(c) ==
    /\ worker[c].pc = "select"
    /\ ~ctxDone[c]
    /\ ctxDone' = Cancel(ctxDone, c)
    /\ last' = Internal
    /\ UNCHANGED <<engineVars, callQueue, nextCallID, approver, decided, smVars, restVars>>

FinishDropped(ts, c, out) == ts

\* lines 361-366 of Run's goroutine: f has returned out; under t.mu the
\* status and the result are set.  The goroutine is alone in touching the
\* task and nothing in this specification reads the task, so the return of
\* f and the critical section are part of the step in which the select
\* fires (SpecLRO takes them apart).
Finish(ts, c, out) ==
    [ts EXCEPT ![c].status = StatusDone, ![c].result = ResultOf(out)]

\* lines 146-147: the select takes ctx.Done(); f returns the cancellation
WorkerCancelled(c) ==
    /\ worker[c].pc = "select"
    /\ ctxDone[c]
    /\ worker' = [worker EXCEPT ![c].pc = "finished", ![c].out = Cancelled]
    /\ tasks' = Finish(tasks, c, Cancelled)
    /\ last' = Internal
    /\ UNCHANGED <<nextID, longRunningTasks, handler, poller, upstream>>
    /\ UNCHANGED <<hitlVars, smVars, restVars>>

(***************************************************************************)
(* handleApproval (main.go:244-274): one HTTP request to /approve or       *)
(* /reject.  An invocation past line 259 is a record: pc where it is,      *)
(* pcall the pendingCall it took out of the queue, val the result it is    *)
(* about to send.                                                          *)
(***************************************************************************)
\* the id query parameters the model's approvers send
IdStrings == {FormatUint(i) : i \in 1..MaxCalls} \cup {<<"x">>}

KeepCall(q, id) == q

\* line 254: delete(callQueue, id)
DeleteCall(q, id) == [k \in DOMAIN q \ {id} |-> q[k]]

ForwardAlways(approve) == TRUE

\* line 260: if approve
ForwardIf(approve) == approve

\* lines 246-251: the id does not parse
DecideInvalid(idStr) ==
    /\ Atoi(idStr).err
    /\ last' = Event("handleApproval", 0, "", 0, 0, <<>>, NilResult, 400)
    /\ UNCHANGED <<engineVars, hitlVars, smVars, restVars>>

\* lines 252-259: no entry under the id
DecideNotFound(idStr) ==
    LET id == Atoi(idStr).val
    IN  /\ ~Atoi(idStr).err
        /\ id \notin DOMAIN callQueue
        /\ callQueue' = DeleteCall(callQueue, id)
        /\ last' = Event("handleApproval", 0, "", 0, id, <<>>, NilResult, 404)
        /\ UNCHANGED <<engineVars, nextCallID, ctxDone, approver, decided, smVars, restVars>>

\* lines 252-259 and 269-270: the entry is taken out of the queue under the
\* lock; on reject the rejection is ready to be sent
DecideRemove(idStr, approve) ==
    LET id == Atoi(idStr).val
    IN  /\ ~Atoi(idStr).err
        /\ id \in DOMAIN callQueue
        /\ callQueue' = DeleteCall(callQueue, id)
        /\ decided' = [k \in DOMAIN decided \cup {id} |->
                          IF k \in DOMAIN decided
                          THEN IF k = id THEN Append(decided[k], approve)
                               ELSE decided[k]
                          ELSE <<approve>>]
        /\ approver' = approver \cup
               {[pc |-> IF ForwardIf(approve) THEN "forward" ELSE "send",
                 pcall |-> callQueue[id],
                 val |-> IF ForwardIf(approve) THEN NilResult ELSE Rejected]}
        /\ last' = Internal
        /\ UNCHANGED <<engineVars, nextCallID, ctxDone, smVars, restVars>>

ForwardResultErrIgnored(fails, rq) == UpstreamResult(rq)

CallToolSkipped(up, rq) == up

\* line 263: mcpClient.CallTool(ctx, pc.Request), the upstream server
\* receives the request
CallTool(up, rq) == [up EXCEPT ![rq] = @ + 1]

\* lines 264-268: what handleApproval sends after CallTool returned
ForwardResult(fails, rq) ==
    IF fails THEN ForwardError ELSE UpstreamResult(rq)

\* lines 261-268: mcpClient.CallTool(ctx, pc.Request) under the 30 s timeout
\* returns a result, or nil and an error (the timeout included); last holds
\* what it returned
DecideForward(a, fails) ==
    LET rq == a.pcall.Request
    IN  /\ a.pc = "forward"
        /\ upstream' = CallTool(upstream, rq)
        /\ approver' = (approver \ {a}) \cup
               {[a EXCEPT !.pc = "send", !.val = ForwardResult(fails, rq)]}
        /\ last' = Event("CallTool", rq, "", 0, a.pcall.ID, <<>>,
                         IF fails THEN NilResult ELSE UpstreamResult(rq), 0)
        /\ UNCHANGED <<nextID, tasks, longRunningTasks, handler, worker, poller>>
        /\ UNCHANGED <<callQueue, nextCallID, ctxDone, decided, smVars, restVars>>

\* lines 265, 267, 270 with lines 144-145: the send on the unbuffered
\* ResponseC meets the receive of the select, f returns what was sent; then
\* line 272 redirects
DecideSend(a) ==
    LET c == a.pcall.ResponseC
    IN  /\ a.pc = "send"
        /\ worker[c].pc = "select"
        /\ worker' = [worker EXCEPT ![c].pc = "finished", ![c].out = a.val]
        /\ tasks' = Finish(tasks, c, a.val)
        /\ approver' = approver \ {a}
        /\ last' = Event("handleApproval", 0, "", 0, a.pcall.ID, <<>>, NilResult, 302)
        /\ UNCHANGED <<nextID, longRunningTasks, handler, poller, upstream>>
        /\ UNCHANGED <<callQueue, nextCallID, ctxDone, decided, smVars, restVars>>

\* what a GET of the approval page returns: status 200 and the rows
ListEvent(rows) ==
    [op |-> "listPendingCalls", call |-> 0, tool |-> "", rq |-> 0, id |-> 0,
     task |-> <<>>, reply |-> NilResult, http |-> 200, rows |-> rows]

RowsNone(q) == {}

\* listPendingCalls (main.go:199-211): under callQueueLock, one row per entry
\* of callQueue (the map is ranged over in no particular order)
Rows(q) == {[ID |-> q[k].ID, Request |-> q[k].Request] : k \in DOMAIN q}

\* listPendingCalls (main.go:199-242): the approval page is rendered from
\* the rows; nothing is changed
ListPendingCalls ==
    /\ last' = ListEvent(Rows(callQueue))
    /\ UNCHANGED <<engineVars, hitlVars, smVars, restVars>>

NextHITL ==
    \/ ListPendingCalls
    \/ \E rq \in Requests : InterceptRejected(rq)
    \/ \E c \in Calls, rq \in Requests : InterceptRun(c, rq)
    \/ \E c \in Calls : WorkerRegister(c)
    \/ \E c \in Calls : CancelCtx(c)
    \/ \E c \in Calls : WorkerCancelled(c)
    \/ \E idStr \in IdStrings : DecideInvalid(idStr)
    \/ \E idStr \in IdStrings : DecideNotFound(idStr)
    \/ \E idStr \in IdStrings, approve \in BOOLEAN : DecideRemove(idStr, approve)
    \/ \E a \in approver, fails \in BOOLEAN : DecideForward(a, fails)
    \/ \E a \in approver : DecideSend(a)

SpecHITL == InitHITL /\ [][NextHITL]_vars

\* The Go scheduler runs every runnable goroutine: a goroutine that can
\* register its call, leave its select, or send to a waiting receiver does
\* so; mcpClient.CallTool returns within its 30 s timeout.  Nothing obliges
\* callers, approvers or the transport to act.
FairHITL ==
    \A c \in Calls :
        /\ WF_vars(WorkerRegister(c))
        /\ WF_vars(WorkerCancelled(c))
        /\ WF_vars(\E a \in approver, fails \in BOOLEAN :
                      a.pcall.Request = c /\ DecideForward(a, fails))
        /\ WF_vars(\E a \in approver :
                      a.pcall.ResponseC = c /\ DecideSend(a))

SpecHITLFair == SpecHITL /\ FairHITL

(***************************************************************************)
(* The config-gated consent proxy (the second main package of               *)
(* mcp/constraints_mcp/README.md, lines 160-418): no task engine; the       *)
(* handler of a tool call itself waits for the decision.  worker[c] is the  *)
(* handler invocation in slot c, out what it returned; handleApproval is    *)
(* the text of human_in_the_loop_wrapper, so the Decide actions are shared. *)
(***************************************************************************)
\* the config file: a list of MethodConfig (loadConfig, lines 275-291)
GateConfigs ==
    << [MethodName |-> "run_agent", Enabled |-> TRUE],
       [MethodName |-> "list_agents", Enabled |-> FALSE] >>

\* the tools the upstream server lists (line 252)
GateTools == {"run_agent", "list_agents", "get_agent"}

\* CallTool returned (nil, err) and the handler returns it as it is
GateCallError == Result("CallTool error", TRUE, 0, <<>>)

EnabledAlways(configs, toolName) == TRUE

\* line 295: configs[toolName].Enabled; a missing key gives the zero value
Enabled(configs, toolName) ==
    \E i \in 1..Len(configs) :
        configs[i].MethodName = toolName /\ configs[i].Enabled

InitGate ==
    /\ nextID = 0
    /\ tasks = [c \in Calls |-> NoTask]
    /\ longRunningTasks = <<>>
    /\ handler = [c \in Calls |-> IdleHandler]
    /\ worker = [c \in Calls |-> IdleWorker]
    /\ poller = IdlePoller
    /\ upstream = [c \in Calls |-> 0]
    /\ callQueue = <<>>
    /\ nextCallID = 1
    /\ ctxDone = [c \in Calls |-> FALSE]
    /\ approver = {}
    /\ decided = <<>>
    /\ last = Internal
    /\ SMIdle
    /\ RestIdle

\* lines 295-297: the tool is not enabled in the config; the call goes to
\* the upstream server and what CallTool returns is returned
GatePass(tool, fails) ==
    /\ ~Enabled(GateConfigs, tool)
    /\ last' = Event("proxy", 0, tool, 0, 0, <<>>,
                     IF fails THEN GateCallError ELSE UpstreamResult(0), 0)
    /\ UNCHANGED <<engineVars, hitlVars, smVars, restVars>>

\* lines 299-304: the tool is enabled; under callQueueLock the call gets
\* its id and enters the queue; the handler goes to its select
GateEnqueue(c, tool) ==
    /\ Enabled(GateConfigs, tool)
    /\ worker[c].pc = "none"
    /\ \A j \in 1..(c - 1) : worker[j].pc # "none"
    /\ nextCallID' = nextCallID + 1
    /\ callQueue' =
           [k \in DOMAIN callQueue \cup {nextCallID} |->
               IF k = nextCallID
               THEN [ID |-> nextCallID, Request |-> c, ResponseC |-> c]
               ELSE callQueue[k]]
    /\ worker' = [worker EXCEPT ![c].pc = "select", ![c].callID = nextCallID]
    /\ last' = Event("enqueue", c, tool, 0, nextCallID, <<>>, NilResult, 0)
    /\ UNCHANGED <<nextID, tasks, longRunningTasks, handler, poller, upstream>>
    /\ UNCHANGED <<ctxDone, approver, decided, smVars, restVars>>

\* lines 309-310: the select takes ctx.Done(); the handler returns the
\* cancellation
GateCancelled(c) ==
    /\ worker[c].pc = "select"
    /\ ctxDone[c]
    /\ worker' = [worker EXCEPT ![c].pc = "finished", ![c].out = Cancelled]
    /\ last' = Event("proxy", c, "", 0, worker[c].callID, <<>>, Cancelled, 0)
    /\ UNCHANGED <<nextID, tasks, longRunningTasks, handler, poller, upstream>>
    /\ UNCHANGED <<hitlVars, smVars, restVars>>

\* lines 389, 391, 394 with lines 307-308: the send on ResponseC meets the
\* receive of the select; the handler returns what was sent, handleApproval
\* redirects (line 396)
GateSend(a) ==
    LET c == a.pcall.ResponseC
    IN  /\ a.pc = "send"
        /\ worker[c].pc = "select"
        /\ worker' = [worker EXCEPT ![c].pc = "finished", ![c].out = a.val]
        /\ approver' = approver \ {a}
        /\ last' = Event("handleApproval", c, "", 0, a.pcall.ID, <<>>, a.val, 302)
        /\ UNCHANGED <<nextID, tasks, longRunningTasks, handler, poller, upstream>>
        /\ UNCHANGED <<callQueue, nextCallID, ctxDone, decided, smVars, restVars>>

NextGate ==
    \/ \E tool \in GateTools, fails \in BOOLEAN : GatePass(tool, fails)
    \/ \E c \in Calls, tool \in GateTools : GateEnqueue(c, tool)
    \/ \E c \in Calls : CancelCtx(c)
    \/ \E c \in Calls : GateCancelled(c)
    \/ \E idStr \in IdStrings : DecideInvalid(idStr)
    \/ \E idStr \in IdStrings : DecideNotFound(idStr)
    \/ \E idStr \in IdStrings, approve \in BOOLEAN : DecideRemove(idStr, approve)
    \/ \E a \in approver, fails \in BOOLEAN : DecideForward(a, fails)
    \/ \E a \in approver : GateSend(a)

SpecGate == InitGate /\ [][NextGate]_vars

(***************************************************************************)
(* The constraints proxy (tasks_mcp/main.go:236-255): each tool of the     *)
(* upstream server is registered with a handler that evaluates the         *)
(* constraint of the tool and forwards the call if it holds.  handler[c]   *)
(* is an invocation waiting in mcpClient.CallTool; upstream counts, per    *)
(* request, the calls of mcpClient.CallTool made for it.                   *)
(***************************************************************************)
\* line 247: mcp.NewToolResultError(fmt.Sprintf("forward error: %v", err))
PassForwardError == Result("forward error", TRUE, 0, <<>>)

InitPass ==
    /\ nextID = 0
    /\ tasks = <<>>
    /\ longRunningTasks = <<>>
    /\ handler = [c \in Calls |-> [pc |-> "idle", rq |-> 0]]
    /\ worker = <<>>
    /\ poller = IdlePoller
    /\ upstream = [rq \in Requests |-> 0]
    /\ last = Internal
    /\ HITLIdle
    /\ SMIdle
    /\ RestIdle

\* lines 239-243: the constraint fails to evaluate or returns false; the
\* handler returns an error result
PassRejected(rq) ==
    LET req == RequestList[rq]
        ev == evalConstraint(constraints[req.name], req.args)
    IN  /\ ev.err \/ ~ev.ok
        /\ last' = Event("proxy", 0, "", rq, 0, <<>>,
                         IF ev.err THEN ConstraintEvalError ELSE ConstraintFalse, 0)
        /\ UNCHANGED <<engineVars, hitlVars, smVars, restVars>>

\* lines 239-245: the constraint holds; the handler calls mcpClient.CallTool
PassCallTool(c, rq) ==
    LET req == RequestList[rq]
        ev == evalConstraint(constraints[req.name], req.args)
    IN  /\ NextSlot(handler, c)
        /\ ~ev.err /\ ev.ok
        /\ handler' = [handler EXCEPT ![c] = [pc |-> "CallTool", rq |-> rq]]
        /\ upstream' = [upstream EXCEPT ![rq] = @ + 1]
        /\ last' = Event("CallTool", c, "", rq, 0, <<>>, NilResult, 0)
        /\ UNCHANGED <<nextID, tasks, longRunningTasks, worker, poller>>
        /\ UNCHANGED <<hitlVars, smVars, restVars>>

\* lines 245-253: mcpClient.CallTool has returned; the handler returns the
\* result, or the forward error
PassReturn(c, fails) ==
    /\ handler[c].pc = "CallTool"
    /\ handler' = [handler EXCEPT ![c].pc = "returned"]
    /\ last' = Event("proxy", c, "", handler[c].rq, 0, <<>>,
                     IF fails THEN PassForwardError
                     ELSE UpstreamResult(handler[c].rq), 0)
    /\ UNCHANGED <<nextID, tasks, longRunningTasks, worker, poller, upstream>>
    /\ UNCHANGED <<hitlVars, smVars, restVars>>

NextPass ==
    \/ \E rq \in Requests : PassRejected(rq)
    \/ \E c \in Calls, rq \in Requests : PassCallTool(c, rq)
    \/ \E c \in Calls, fails \in BOOLEAN : PassReturn(c, fails)

SpecPass == InitPass /\ [][NextPass]_vars

(***************************************************************************)
(* The tasks server (tasks_mcp/main.go:76-169): tasksToolSet.tasks and the *)
(* handlers of add_task, update_task_status, mark_task_done, list_tasks.   *)
(* tasks is the map s.tasks here.  An id is the clock in nanoseconds and   *)
(* 64 random bits; the model takes the ids to be fresh and numbers them in *)
(* the order of creation; 0 is an id that was never generated.  An         *)
(* argument is <<v>> when the request has it and <<>> when it has not.     *)
(***************************************************************************)
TaskKeys == 0..MaxTasks
Texts == {"a", "b"}
IdArgs == {<<>>} \cup {<<k>> : k \in TaskKeys}
TextArgs == {<<>>} \cup {<<d>> : d \in Texts}

\* what a handler of the tasks server returned: the tool, the id argument
\* and the tool result
TaskEvent(op, idArg, reply) == [op |-> op, idArg |-> idArg, reply |-> reply]

CreatedTask(id) == Result("Created task", FALSE, 0, <<id>>)
UpdatedTaskStatus == Result("Updated task status", FALSE, 0, <<>>)
TaskList(ts) == Result("list", FALSE, 0, ts)

UnknownTaskAsText(id) == Result("unknown task with ID", FALSE, 0, <<id>>)

\* mcp.NewToolResultError(fmt.Sprintf("unknown task with ID: %s", id))
UnknownTaskWithID(id) == Result("unknown task with ID", TRUE, 0, <<id>>)

InitTasks ==
    /\ nextID = 0
    /\ tasks = <<>>
    /\ longRunningTasks = <<>>
    /\ handler = <<>>
    /\ worker = <<>>
    /\ poller = IdlePoller
    /\ upstream = <<>>
    /\ last = TaskEvent("main", <<>>, NilResult)
    /\ HITLIdle
    /\ SMIdle
    /\ RestIdle

\* addTaskHandler, lines 91-98: the description is missing
AddTaskMissing ==
    /\ last' = TaskEvent("add_task", <<>>, MissingArgument)
    /\ UNCHANGED <<engineVars, hitlVars, smVars, restVars>>

NewTaskEntryDone(id, desc) ==
    [ID |-> id, Description |-> desc, StatusUpdate |-> <<>>, Done |-> TRUE]

\* &Task{ID: id, Created: time.Now(), Description: desc}
NewTaskEntry(id, desc) ==
    [ID |-> id, Description |-> desc, StatusUpdate |-> <<>>, Done |-> FALSE]

\* addTaskHandler, lines 91-108
AddTask(desc) ==
    LET id == Cardinality(DOMAIN tasks) + 1
    IN  /\ id <= MaxTasks
        /\ tasks' = [k \in DOMAIN tasks \cup {id} |->
                         IF k = id THEN NewTaskEntry(id, desc) ELSE tasks[k]]
        /\ last' = TaskEvent("add_task", <<id>>, CreatedTask(id))
        /\ UNCHANGED <<nextID, longRunningTasks, handler, worker, poller, upstream>>
        /\ UNCHANGED <<hitlVars, smVars, restVars>>

\* lines 111-118 and 133-140: request.RequireString fails for the id or
\* for the text
UpdateMissing(op, idArg, textArg) ==
    /\ idArg = <<>> \/ textArg = <<>>
    /\ last' = TaskEvent(op, idArg, MissingArgument)
    /\ UNCHANGED <<engineVars, hitlVars, smVars, restVars>>

\* lines 120-123 and 142-145: no task under the id
UpdateUnknown(op, idArg, textArg) ==
    /\ idArg # <<>> /\ textArg # <<>>
    /\ idArg[1] \notin DOMAIN tasks
    /\ last' = TaskEvent(op, idArg, UnknownTaskWithID(idArg[1]))
    /\ UNCHANGED <<engineVars, hitlVars, smVars, restVars>>

\* updateTaskStatusHandler, lines 120-129: append the status update
UpdateTaskStatus(idArg, textArg) ==
    /\ idArg # <<>> /\ textArg # <<>>
    /\ idArg[1] \in DOMAIN tasks
    /\ Len(tasks[idArg[1]].StatusUpdate) < MaxUpdates
    /\ tasks' = [tasks EXCEPT ![idArg[1]].StatusUpdate = Append(@, textArg[1])]
    /\ last' = TaskEvent("update_task_status", idArg, UpdatedTaskStatus)
    /\ UNCHANGED <<nextID, longRunningTasks, handler, worker, poller, upstream>>
    /\ UNCHANGED <<hitlVars, smVars, restVars>>

\* markTaskDoneHandler, lines 142-152: append the final update, set Done
MarkTaskDone(idArg, textArg) ==
    /\ idArg # <<>> /\ textArg # <<>>
    /\ idArg[1] \in DOMAIN tasks
    /\ Len(tasks[idArg[1]].StatusUpdate) < MaxUpdates
    /\ tasks' = [tasks EXCEPT ![idArg[1]].StatusUpdate = Append(@, textArg[1]),
                              ![idArg[1]].Done = TRUE]
    /\ last' = TaskEvent("mark_task_done", idArg, UpdatedTaskStatus)
    /\ UNCHANGED <<nextID, longRunningTasks, handler, worker, poller, upstream>>
    /\ UNCHANGED <<hitlVars, smVars, restVars>>

\* listTasksHandler, lines 155-169: the tasks sorted by Created, which is
\* the order of their ids here
ListTasks ==
    /\ last' = TaskEvent("list_tasks", <<>>,
                         TaskList([i \in 1..Cardinality(DOMAIN tasks) |-> tasks[i]]))
    /\ UNCHANGED <<engineVars, hitlVars, smVars, restVars>>

UpdateTools == {"update_task_status", "mark_task_done"}

NextTasks ==
    \/ AddTaskMissing
    \/ \E desc \in Texts : AddTask(desc)
    \/ \E op \in UpdateTools, idArg \in IdArgs, textArg \in TextArgs :
           UpdateMissing(op, idArg, textArg)
    \/ \E op \in UpdateTools, idArg \in IdArgs, textArg \in TextArgs :
           UpdateUnknown(op, idArg, textArg)
    \/ \E idArg \in IdArgs, textArg \in TextArgs : UpdateTaskStatus(idArg, textArg)
    \/ \E idArg \in IdArgs, textArg \in TextArgs : MarkTaskDone(idArg, textArg)
    \/ ListTasks

SpecTasks == InitTasks /\ [][NextTasks]_vars

(***************************************************************************)
(* sqlite_mcp: the session manager (cmd/sqlite_mcp/main.go:22-146).        *)
(* Time is counted in ticks of the clock; m.mu is held for the whole of    *)
(* GetDB and of cleanupExpired, so each is one step.                       *)
(***************************************************************************)
\* the argument SpecSM gives NewSessionManager for expiration, in ticks
Expiration == 2

\* cleanupFreq, in ticks
CleanupFreq == 1

\* filepath.Join(m.rootDir, sessionID+".db")
DbPath(sessionID) == <<"rootDir", sessionID, ".db">>
NoDB == <<>>

\* generateSessionID: the clock in nanoseconds and 128 random bits.  The
\* model takes the ids to be fresh (a collision needs two calls in one
\* nanosecond that draw the same 128 bits) and numbers them 1, 2, ...;
\* 0 is a key that was never generated.
SessionKeys == 0..MaxCreates

\* what a step returned: the operation, its session id, the error and the
\* database handle (the path it is open on)
\* no entry was found, so no ExpiresAt was read
NoDeadline == -1
SMEvent(op, key, err, db) ==
    [op |-> op, key |-> key, err |-> err, db |-> db, found |-> NoDeadline]

\* what GetDB returned, and the ExpiresAt it read from the entry it found
GetDBEvent(key, err, db, found) ==
    [op |-> "GetDB", key |-> key, err |-> err, db |-> db, found |-> found]

\* the variables of the proxies, as SpecSM holds them
EngineIdle ==
    /\ nextID = 0
    /\ tasks = <<>>
    /\ longRunningTasks = <<>>
    /\ handler = <<>>
    /\ worker = <<>>
    /\ poller = IdlePoller
    /\ upstream = <<>>

InitSM ==
    /\ LocksFree
    /\ now = 0
    /\ sessions = <<>>
    /\ files = {}
    /\ idSeq = 0
    /\ creator = {}
    /\ nextSweep = CleanupFreq
    /\ deadline = <<>>
    /\ expiration = Expiration
    /\ last = SMEvent("NewSessionManager", 0, "", NoDB)
    /\ EngineIdle
    /\ HITLIdle
    /\ RestIdle

\* the clock advances
Tick ==
    /\ now < MaxTime
    /\ now' = now + 1
    /\ last' = SMEvent("tick", 0, "", NoDB)
    /\ UNCHANGED <<sessions, files, idSeq, creator, nextSweep, deadline, expiration>>
    /\ UNCHANGED <<engineVars, hitlVars, restVars, lockVars>>

TouchNothing(fs, path) == fs

\* lines 72-80: the sqlite3 driver creates the file at dbPath when the
\* database is first used
Touch(fs, path) == fs \cup {path}

\* CreateDatabase, lines 68-80: sql.Open or the CREATE TABLE fails; the file
\* exists if the database was opened
CreateFails(opened) ==
    /\ idSeq < MaxCreates
    /\ idSeq' = idSeq + 1
    /\ files' = IF opened THEN Touch(files, DbPath(idSeq')) ELSE files
    /\ last' = SMEvent("CreateDatabase", 0, "sql", NoDB)
    /\ UNCHANGED <<now, sessions, creator, nextSweep, deadline, expiration>>
    /\ UNCHANGED <<engineVars, hitlVars, restVars, lockVars>>

\* CreateDatabase, lines 68-82: the id is generated, the database file
\* created, the clock read
CreateTouch ==
    /\ idSeq < MaxCreates
    /\ idSeq' = idSeq + 1
    /\ files' = Touch(files, DbPath(idSeq'))
    /\ creator' = creator \cup {[sessionID |-> idSeq', dbPath |-> DbPath(idSeq'),
                                 now |-> now]}
    /\ last' = SMEvent("internal", 0, "", NoDB)
    /\ UNCHANGED <<now, sessions, nextSweep, deadline, expiration>>
    /\ UNCHANGED <<engineVars, hitlVars, restVars, lockVars>>

ExpiresNow(t, d) == t

AtOrAfter(t, expiresAt) == t >= expiresAt

\* now.Add(m.expiration)
ExpiresAt(t, d) == t + d

RegisterNothing(m, cr) == m

\* lines 86-90: m.sessions[sessionID] = &SessionInfo{...}
Register(m, cr) ==
    [k \in DOMAIN m \cup {cr.sessionID} |->
        IF k = cr.sessionID
        THEN [Path |-> cr.dbPath,
              ExpiresAt |-> ExpiresAt(cr.now, expiration),
              LastAccess |-> cr.now]
        ELSE m[k]]

\* CreateDatabase, lines 84-92, under m.mu: register the session, return
\* its id
CreateRegister(cr) ==
    /\ sessions' = Register(sessions, cr)
    /\ deadline' = [k \in DOMAIN deadline \cup {cr.sessionID} |->
                       IF k = cr.sessionID THEN ExpiresAt(cr.now, expiration)
                       ELSE deadline[k]]
    /\ creator' = creator \ {cr}
    /\ last' = SMEvent("CreateDatabase", cr.sessionID, "", NoDB)
    /\ UNCHANGED <<now, files, idSeq, nextSweep, expiration>>
    /\ UNCHANGED <<engineVars, hitlVars, restVars, lockVars>>

NeverExpired(t, expiresAt) == FALSE

\* now.After(info.ExpiresAt)
After(t, expiresAt) == t > expiresAt

DeleteNothing(m, id) == m

\* delete(m.sessions, id)
DeleteSession(m, id) == [k \in DOMAIN m \ {id} |-> m[k]]

ErrSessionMixedUp == "session expired"

\* line 101: errors.New("invalid session")
ErrInvalidSession == "invalid session"

\* line 107: errors.New("session expired")
ErrSessionExpired == "session expired"

\* GetDB, lines 99-102: no session under the id
GetDBInvalid(sessionID) ==
    /\ sessionID \notin DOMAIN sessions
    /\ last' = SMEvent("GetDB", sessionID, ErrInvalidSession, NoDB)
    /\ UNCHANGED <<smVars, restVars>>
    /\ UNCHANGED <<engineVars, hitlVars, restVars, lockVars>>

\* GetDB, lines 104-108: the session has expired; it leaves the map
GetDBExpired(sessionID) ==
    /\ sessionID \in DOMAIN sessions
    /\ After(now, sessions[sessionID].ExpiresAt)
    /\ sessions' = DeleteSession(sessions, sessionID)
    /\ last' = GetDBEvent(sessionID, ErrSessionExpired, NoDB,
                          sessions[sessionID].ExpiresAt)
    /\ UNCHANGED <<now, files, idSeq, creator, nextSweep, deadline, expiration>>
    /\ UNCHANGED <<engineVars, hitlVars, restVars, lockVars>>

\* GetDB, lines 110-119: the session is renewed and the database opened
\* (sql.Open of a registered driver only builds the handle; it does not fail)
GetDBRenew(sessionID) ==
    /\ sessionID \in DOMAIN sessions
    /\ ~After(now, sessions[sessionID].ExpiresAt)
    /\ sessions' = [sessions EXCEPT
           ![sessionID].LastAccess = now,
           ![sessionID].ExpiresAt = ExpiresAt(now, expiration)]
    /\ deadline' = [deadline EXCEPT ![sessionID] = sessions'[sessionID].ExpiresAt]
    /\ last' = GetDBEvent(sessionID, "", sessions[sessionID].Path,
                          sessions[sessionID].ExpiresAt)
    /\ UNCHANGED <<now, files, idSeq, creator, nextSweep, expiration>>
    /\ UNCHANGED <<engineVars, hitlVars, restVars, lockVars>>

ExpiredAll(m, t) == DOMAIN m

ExpiredNone(m, t) == {}

\* the sessions cleanupExpired removes
Expired(m, t) == {id \in DOMAIN m : After(t, m[id].ExpiresAt)}

\* cleanupLoop and cleanupExpired (lines 122-142): the ticker has fired; under
\* m.mu every expired session loses its file and its entry.  The last value
\* of the clock stands for all later times: the ticker keeps firing there.
CleanupExpired ==
    /\ now >= nextSweep \/ now = MaxTime
    /\ nextSweep' = IF now >= nextSweep THEN nextSweep + CleanupFreq
                    ELSE nextSweep
    /\ files' = files \ {sessions[id].Path : id \in Expired(sessions, now)}
    /\ sessions' = [k \in DOMAIN sessions \ Expired(sessions, now) |-> sessions[k]]
    /\ last' = SMEvent("cleanupExpired", 0, "", NoDB)
    /\ UNCHANGED <<now, idSeq, creator, deadline, expiration>>
    /\ UNCHANGED <<engineVars, hitlVars, restVars, lockVars>>

NextSM ==
    \/ Tick
    \/ \E opened \in BOOLEAN : CreateFails(opened)
    \/ CreateTouch
    \/ \E cr \in creator : CreateRegister(cr)
    \/ \E sessionID \in SessionKeys : GetDBInvalid(sessionID)
    \/ \E sessionID \in SessionKeys : GetDBExpired(sessionID)
    \/ \E sessionID \in SessionKeys : GetDBRenew(sessionID)
    \/ CleanupExpired

SpecSM == InitSM /\ [][NextSM]_vars

\* Time passes, the ticker of cleanupLoop fires, and a CreateDatabase that
\* has made its file goes on to register the session.  Nothing obliges the
\* callers to call.
FairSM ==
    /\ WF_vars(Tick)
    /\ WF_vars(CleanupExpired)
    /\ WF_vars(\E cr \in creator : CreateRegister(cr))

SpecSMFair == SpecSM /\ FairSM

(***************************************************************************)
(* The session manager with the critical section of GetDB taken apart      *)
(* (main.go:95-120): m.mu.Lock(), the lookup and the clock, then the       *)
(* eviction or the renewal with the deferred Unlock.  CreateDatabase and   *)
(* cleanupExpired take the same mutex for their whole critical section     *)
(* (lines 84-85, 132-133), which nothing else can enter, so each is one   *)
(* step that needs the mutex free.                                         *)
(***************************************************************************)
AcquireAny(holder) == TRUE

\* m.mu.Lock() returns when the mutex is free
Acquire(holder) == holder = Free

UnlockKept(holder) == holder

\* Unlock()
Unlock(holder) == Free

InitRace == InitSM

\* CreateDatabase, lines 84-92
RaceCreate(cr) ==
    /\ Acquire(mu)
    /\ CreateRegister(cr)

\* cleanupExpired, lines 131-142
RaceSweep ==
    /\ Acquire(mu)
    /\ CleanupExpired

\* GetDB, lines 96-97: the mutex is taken
GetLock(sessionID) ==
    /\ getter.pc = "idle"
    /\ Acquire(mu)
    /\ mu' = <<"GetDB">>
    /\ getter' = [IdleGetter EXCEPT !.pc = "locked", !.key = sessionID]
    /\ last' = SMEvent("internal", 0, "", NoDB)
    /\ UNCHANGED <<now, sessions, files, idSeq, creator, nextSweep, deadline, expiration,
                   callQueueLock>>
    /\ UNCHANGED <<engineVars, hitlVars, restVars>>

\* GetDB, lines 99-102: no session under the id; the deferred Unlock runs
GetMissing ==
    /\ getter.pc = "locked"
    /\ getter.key \notin DOMAIN sessions
    /\ mu' = Unlock(mu)
    /\ UNCHANGED callQueueLock
    /\ getter' = IdleGetter
    /\ last' = SMEvent("GetDB", getter.key, ErrInvalidSession, NoDB)
    /\ UNCHANGED <<now, sessions, files, idSeq, creator, nextSweep, deadline, expiration>>
    /\ UNCHANGED <<engineVars, hitlVars, restVars>>

\* GetDB, lines 99 and 104: info is the *SessionInfo found, now the clock
GetFound ==
    /\ getter.pc = "locked"
    /\ getter.key \in DOMAIN sessions
    /\ getter' = [getter EXCEPT !.pc = "found", !.now = now,
                                !.info = sessions[getter.key]]
    /\ last' = SMEvent("internal", 0, "", NoDB)
    /\ UNCHANGED <<now, sessions, files, idSeq, creator, nextSweep, deadline, expiration, mu,
                   callQueueLock>>
    /\ UNCHANGED <<engineVars, hitlVars, restVars>>

\* GetDB, lines 105-108: the session has expired; delete and Unlock
GetExpire ==
    /\ getter.pc = "found"
    /\ After(getter.now, getter.info.ExpiresAt)
    /\ sessions' = DeleteSession(sessions, getter.key)
    /\ mu' = Unlock(mu)
    /\ UNCHANGED callQueueLock
    /\ getter' = IdleGetter
    /\ last' = GetDBEvent(getter.key, ErrSessionExpired, NoDB, getter.info.ExpiresAt)
    /\ UNCHANGED <<now, files, idSeq, creator, nextSweep, deadline, expiration>>
    /\ UNCHANGED <<engineVars, hitlVars, restVars>>

\* GetDB, lines 110-119: info is renewed (it is the entry of the map while
\* the entry is there), the database opened on info.Path; Unlock
GetRenewed ==
    /\ getter.pc = "found"
    /\ ~After(getter.now, getter.info.ExpiresAt)
    /\ sessions' = IF getter.key \in DOMAIN sessions
                   THEN [sessions EXCEPT
                            ![getter.key].LastAccess = getter.now,
                            ![getter.key].ExpiresAt = ExpiresAt(getter.now, expiration)]
                   ELSE sessions
    /\ deadline' = [deadline EXCEPT
                       ![getter.key] = ExpiresAt(getter.now, expiration)]
    /\ mu' = Unlock(mu)
    /\ UNCHANGED callQueueLock
    /\ getter' = IdleGetter
    /\ last' = GetDBEvent(getter.key, "", getter.info.Path, getter.info.ExpiresAt)
    /\ UNCHANGED <<now, files, idSeq, creator, nextSweep, expiration>>
    /\ UNCHANGED <<engineVars, hitlVars, restVars>>

NextRace ==
    \/ Tick
    \/ CreateTouch
    \/ \E cr \in creator : RaceCreate(cr)
    \/ \E sessionID \in SessionKeys : GetLock(sessionID)
    \/ GetMissing
    \/ GetFound
    \/ GetExpire
    \/ GetRenewed
    \/ RaceSweep

SpecRace == InitRace /\ [][NextRace]_vars

(***************************************************************************)
(* human_in_the_loop_wrapper with its mutexes taken apart: the goroutine   *)
(* Run starts (main.go:360-367) calls the work function, which takes and   *)
(* releases callQueueLock (lines 136-141) and then waits in its select,    *)
(* and after the work function has returned takes t.mu.  handleApproval    *)
(* (lines 252-255), listPendingCalls (lines 200-201) and Status and Result *)
(* (lines 341-351) hold their one mutex for a critical section that calls  *)
(* nothing, so each is one step that needs the mutex free.                 *)
(***************************************************************************)
InitLocks == InitHITL

\* line 136: callQueueLock.Lock()
WorkerLock(c) ==
    /\ worker[c].pc = "register"
    /\ Acquire(callQueueLock)
    /\ callQueueLock' = <<"work", c>>
    /\ worker' = [worker EXCEPT ![c].pc = "queuelocked"]
    /\ last' = Internal
    /\ UNCHANGED <<nextID, tasks, longRunningTasks, handler, poller, upstream>>
    /\ UNCHANGED <<hitlVars, restVars>>
    /\ UNCHANGED <<now, sessions, files, idSeq, creator, nextSweep, deadline,
                   expiration, mu, getter>>

\* lines 137-141: allocate the id, enter the queue, callQueueLock.Unlock()
WorkerRegisterUnlock(c) ==
    /\ worker[c].pc = "queuelocked"
    /\ nextCallID' = IncCallID(nextCallID)
    /\ callQueue' =
           [k \in DOMAIN callQueue \cup {nextCallID} |->
               IF k = nextCallID
               THEN [ID |-> nextCallID, Request |-> c, ResponseC |-> c]
               ELSE callQueue[k]]
    /\ worker' = [worker EXCEPT ![c].pc = "select", ![c].callID = nextCallID]
    /\ callQueueLock' = Unlock(callQueueLock)
    /\ last' = Internal
    /\ UNCHANGED <<nextID, tasks, longRunningTasks, handler, poller, upstream>>
    /\ UNCHANGED <<ctxDone, approver, decided, restVars>>
    /\ UNCHANGED <<now, sessions, files, idSeq, creator, nextSweep, deadline,
                   expiration, mu, getter>>

\* lines 146-147 and 361: the select takes ctx.Done(); f has returned the
\* cancellation
SelectCancelled(c) ==
    /\ worker[c].pc = "select"
    /\ ctxDone[c]
    /\ worker' = [worker EXCEPT ![c].pc = "returned", ![c].out = Cancelled]
    /\ last' = Internal
    /\ UNCHANGED <<nextID, tasks, longRunningTasks, handler, poller, upstream>>
    /\ UNCHANGED <<hitlVars, smVars, restVars>>

\* lines 265, 267, 270 with lines 144-145 and 361: the send meets the
\* receive of the select; f has returned what was sent
SelectReceive(a) ==
    LET c == a.pcall.ResponseC
    IN  /\ a.pc = "send"
        /\ worker[c].pc = "select"
        /\ worker' = [worker EXCEPT ![c].pc = "returned", ![c].out = a.val]
        /\ approver' = approver \ {a}
        /\ last' = Event("handleApproval", 0, "", 0, a.pcall.ID, <<>>, NilResult, 302)
        /\ UNCHANGED <<nextID, tasks, longRunningTasks, handler, poller, upstream>>
        /\ UNCHANGED <<callQueue, nextCallID, ctxDone, decided, smVars, restVars>>

\* handleApproval, lines 252-255, no entry under the id
LockedDecideNotFound(idStr) ==
    /\ Acquire(callQueueLock)
    /\ DecideNotFound(idStr)

\* handleApproval, lines 252-259 and 269-270: callQueueLock.Lock(), the
\* entry is taken out, callQueueLock.Unlock(); then the invocation goes on
\* to forward or to send the rejection
LockedDecideRemove(idStr, approve) ==
    LET id == Atoi(idStr).val
    IN  /\ Acquire(callQueueLock)
        /\ ~Atoi(idStr).err
        /\ id \in DOMAIN callQueue
        /\ callQueue' = DeleteCall(callQueue, id)
        /\ callQueueLock' = Unlock(<<"handleApproval", id>>)
        /\ decided' = [k \in DOMAIN decided \cup {id} |->
                          IF k \in DOMAIN decided
                          THEN IF k = id THEN Append(decided[k], approve)
                               ELSE decided[k]
                          ELSE <<approve>>]
        /\ approver' = approver \cup
               {[pc |-> IF ForwardIf(approve) THEN "forward" ELSE "send",
                 pcall |-> callQueue[id],
                 val |-> IF ForwardIf(approve) THEN NilResult ELSE Rejected]}
        /\ last' = Internal
        /\ UNCHANGED <<engineVars, nextCallID, ctxDone, restVars>>
        /\ UNCHANGED <<now, sessions, files, idSeq, creator, nextSweep, deadline,
                       expiration, mu, getter>>

\* listPendingCalls, lines 200-211
LockedList ==
    /\ Acquire(callQueueLock)
    /\ ListPendingCalls

NextLocks ==
    \/ \E rq \in Requests : InterceptRejected(rq)
    \/ \E c \in Calls, rq \in Requests : InterceptRun(c, rq)
    \/ \E c \in Calls : WorkerLock(c)
    \/ \E c \in Calls : WorkerRegisterUnlock(c)
    \/ \E c \in Calls : CancelCtx(c)
    \/ \E c \in Calls : SelectCancelled(c)
    \/ \E a \in approver : SelectReceive(a)
    \/ \E c \in Calls : TaskLock(c)
    \/ \E c \in Calls : TaskUnlock(c)
    \/ \E idStr \in IdStrings : LockedDecideNotFound(idStr)
    \/ \E idStr \in IdStrings, approve \in BOOLEAN : LockedDecideRemove(idStr, approve)
    \/ \E a \in approver, fails \in BOOLEAN : DecideForward(a, fails)
    \/ LockedList
    \/ \E id \in LroPollIds : PollPending(id)
    \/ PollCooldown
    \/ \E id \in LroPollIds : PollDone(id)

SpecLocks == InitLocks /\ [][NextLocks]_vars

\* sync.Mutex hands the mutex to a goroutine that keeps waiting for it
\* (starvation mode), and a goroutine that holds it runs on to its Unlock.
\* Nothing obliges callers, approvers or the transport to act.
FairLocks ==
    \A c \in Calls :
        /\ SF_vars(WorkerLock(c))
        /\ WF_vars(WorkerRegisterUnlock(c))

SpecLocksFair == SpecLocks /\ FairLocks

(***************************************************************************)
(* The two copies of the task engine side by side.  nextID, tasks and      *)
(* longRunningTasks are the copy of long_running_tasks_mcp (main.go:       *)
(* 118-211), moved by the operators of the task engine above; hitlEngine   *)
(* is the copy of human_in_the_loop_wrapper (main.go:276-369), moved by    *)
(* the operators below, written from that file.  Every step gives both     *)
(* copies the same call: startLongRunningTask, the return of a task's work *)
(* function, or checkLongRunningTaskHandler; last holds both replies.      *)
(***************************************************************************)
\* what the two copies returned to the same call
Both(op, task, lro, hitl) == [op |-> op, task |-> task, lro |-> lro, hitl |-> hitl]

\* human_in_the_loop_wrapper/main.go:357, atomic.AddUint64(&nextID, 1)
HitlAddUint64(n) == n + 1

\* human_in_the_loop_wrapper/main.go:356-359, the task literal of Run
HitlNewTask(n) ==
    [ID |-> FormatUint(n), status |-> "Pending", result |-> NilResult,
     mu |-> FALSE]

\* human_in_the_loop_wrapper/main.go:324-332, startLongRunningTask: Run, then
\* Store under the task's ID
HitlStart(e) ==
    LET n == HitlAddUint64(e.nextID)
        t == HitlNewTask(n)
        c == Len(e.tasks) + 1
    IN  [nextID |-> n,
         tasks |-> Append(e.tasks, t),
         longRunningTasks |->
             [k \in DOMAIN e.longRunningTasks \cup {t.ID} |->
                 IF k = t.ID THEN c ELSE e.longRunningTasks[k]]]

\* human_in_the_loop_wrapper/main.go:327-331, the result of
\* startLongRunningTask for the task it just made
HitlStarted(e) ==
    Result("Started long running task with ID", FALSE, 0,
           HitlStart(e).tasks[Len(e.tasks) + 1].ID)

\* human_in_the_loop_wrapper/main.go:361-366, Run's goroutine after f
\* returned out
HitlFinish(e, c, out) ==
    [e EXCEPT !.tasks[c].status = "Done", !.tasks[c].result = out]

\* human_in_the_loop_wrapper/main.go:303-321, checkLongRunningTaskHandler
\* with an id: the reply (on Pending, the one sent after the cooldown)
HitlCheck(e, id) ==
    IF id \notin DOMAIN e.longRunningTasks
    THEN Result("unknown task ID", TRUE, 0, id)
    ELSE LET t == e.tasks[e.longRunningTasks[id]]
         IN  IF t.status = "Pending"
             THEN Result("Task is pending", FALSE, 0, id)
             ELSE t.result

\* long_running_tasks_mcp/main.go:145-163, the same for the other copy
LroCheck(id) ==
    IF id \notin DOMAIN longRunningTasks
    THEN UnknownTask(id)
    ELSE LET t == tasks[longRunningTasks[id]]
         IN  IF t.status = "Pending" THEN CooldownReply(t, id)
             ELSE StatusReply(t, id)

InitEquiv ==
    /\ EngineIdle
    /\ CopyIdle
    /\ last = Both("main", <<>>, NilResult, NilResult)
    /\ HITLIdle
    /\ SMIdle
    /\ DataIdle

\* startLongRunningTask in both copies
EquivStart ==
    LET c == Len(tasks) + 1
    IN  /\ c <= MaxTasks
        /\ nextID' = AddUint64(nextID)
        /\ tasks' = Append(tasks, NewTask(nextID'))
        /\ longRunningTasks' = Store(longRunningTasks, tasks'[c].ID, c)
        /\ hitlEngine' = HitlStart(hitlEngine)
        /\ last' = Both("startLongRunningTask", <<>>,
                        TaskStarted(tasks'[c].ID), HitlStarted(hitlEngine))
        /\ UNCHANGED <<handler, worker, poller, upstream>>
        /\ UNCHANGED <<hitlVars, smVars, dataVars>>

\* the outcomes of a work function
Outs(c) == {UpstreamResult(c), ForwardError, Cancelled}

\* the work function of the c-th task returns out in both copies; last holds
\* the result each copy has set
EquivFinish(c, out) ==
    /\ c \in DOMAIN tasks
    /\ tasks[c].status = "Pending"
    /\ tasks' = Finish(tasks, c, out)
    /\ hitlEngine' = HitlFinish(hitlEngine, c, out)
    /\ last' = Both("Run", tasks[c].ID, tasks'[c].result,
                    hitlEngine'.tasks[c].result)
    /\ UNCHANGED <<nextID, longRunningTasks, handler, worker, poller, upstream>>
    /\ UNCHANGED <<hitlVars, smVars, dataVars>>

\* checkLongRunningTaskHandler without the id argument, in both copies
EquivCheckMissing ==
    /\ last' = Both("checkLongRunningTaskHandler", <<>>,
                    MissingArgument,
                    Result("missing required argument", TRUE, 0, <<>>))
    /\ UNCHANGED <<engineVars, hitlVars, smVars, restVars>>

\* checkLongRunningTaskHandler with an id, in both copies
EquivCheck(id) ==
    /\ last' = Both("checkLongRunningTaskHandler", id,
                    LroCheck(id), HitlCheck(hitlEngine, id))
    /\ UNCHANGED <<engineVars, hitlVars, smVars, restVars>>

NextEquiv ==
    \/ EquivStart
    \/ \E c \in 1..MaxTasks : \E out \in Outs(c) : EquivFinish(c, out)
    \/ EquivCheckMissing
    \/ \E id \in LroPollIds : EquivCheck(id)

SpecEquiv == InitEquiv /\ [][NextEquiv]_vars

(***************************************************************************)
(* static_json_mcp (main.go:18-94): the array is read once; get_data       *)
(* returns a page of it.  int is IntBits wide and wraps in two's           *)
(* complement; the element at index i of the array is i.                   *)
(***************************************************************************)
MaxInt == 2^(IntBits - 1) - 1
MinInt == 0 - 2^(IntBits - 1)
\* the page and page_size arguments the model's callers send; -1 is what
\* req.GetInt yields for an argument the request does not have
IntArgs == -1..MaxInt

\* the value an int holds after an arithmetic operation yields n
Wrap(n) == ((n - MinInt) % 2^IntBits) + MinInt

\* array[start:end]; the slice expression panics when the bounds are not
\* 0 <= start <= end <= cap(array)
Slice(array, start, end) ==
    IF start < 0 \/ end < start \/ end > Len(array)
    THEN [panic |-> TRUE, out |-> <<>>]
    ELSE [panic |-> FALSE, out |-> SubSeq(array, start + 1, end)]

\* paginate, lines 82-94
paginate(array, page, pageSize) ==
    LET start == Wrap(page * pageSize)
        end == Wrap(start + pageSize)
    IN  IF start >= Len(array)
        THEN [panic |-> FALSE, out |-> <<>>]
        ELSE Slice(array, start, IF end > Len(array) THEN Len(array) ELSE end)

DefaultPage == 0
DefaultPageSize == 10

\* what get_data returned: the arguments it read and the page, or the panic
DataEvent(page, pageSize, res) ==
    [op |-> "get_data", page |-> page, pageSize |-> pageSize,
     panic |-> res.panic, out |-> res.out]

InitData ==
    /\ \E n \in 0..MaxLen : jsonArray = [i \in 1..n |-> i - 1]
    /\ last = [op |-> "main", page |-> 0, pageSize |-> 0, panic |-> FALSE,
               out |-> <<>>]
    /\ EngineIdle
    /\ HITLIdle
    /\ SMIdle
    /\ CopyIdle

\* the get_data handler, lines 49-74: req.GetInt yields -1 for an argument
\* the request does not have, and -1 selects the default
GetData(pageArg, pageSizeArg) ==
    LET page == IF pageArg # -1 THEN pageArg ELSE DefaultPage
        pageSize == IF pageSizeArg # -1 THEN pageSizeArg ELSE DefaultPageSize
    IN  /\ last' = DataEvent(page, pageSize, paginate(jsonArray, page, pageSize))
        /\ UNCHANGED <<engineVars, hitlVars, smVars, restVars>>

NextData ==
    \E pageArg \in IntArgs, pageSizeArg \in IntArgs : GetData(pageArg, pageSizeArg)

SpecData == InitData /\ [][NextData]_vars

(***************************************************************************)
(* TestSessionRenewal (pkg/sessionmanager/session_manager_test.go:43-64):  *)
(* a manager with an expiration of 50ms, sessions created at the start,    *)
(* then sleeps and accesses.  The clock counts units of 5ms.  cleanupFreq  *)
(* is one minute, so the ticker does not fire within the scenario.         *)
(***************************************************************************)
\* n * time.Millisecond, in units of the clock
Ms(n) == n \div 5

\* the durations the scenario sleeps for
Sleeps == {Ms(25), Ms(30), Ms(60), Ms(120)}

\* the scenario ends here
MaxClock == Ms(25) + Ms(60) + Ms(120)

InitRenewal ==
    /\ LocksFree
    /\ now = 0
    /\ sessions = <<>>
    /\ files = {}
    /\ idSeq = 0
    /\ creator = {}
    /\ nextSweep = Ms(60000)
    /\ deadline = <<>>
    /\ expiration = Ms(50)
    /\ last = SMEvent("NewSessionManager", 0, "", NoDB)
    /\ EngineIdle
    /\ HITLIdle
    /\ RestIdle

\* manager.CreateDatabase() at the start of the test
TestCreate ==
    /\ now = 0
    /\ CreateTouch

\* time.Sleep(d)
Sleep(d) ==
    /\ now + d <= MaxClock
    /\ now' = now + d
    /\ last' = SMEvent("Sleep", 0, "", NoDB)
    /\ UNCHANGED <<sessions, files, idSeq, creator, nextSweep, deadline, expiration>>
    /\ UNCHANGED <<engineVars, hitlVars, restVars, lockVars>>

NextRenewal ==
    \/ TestCreate
    \/ \E cr \in creator : CreateRegister(cr)
    \/ \E d \in Sleeps : Sleep(d)
    \/ \E sessionID \in SessionKeys : GetDBInvalid(sessionID)
    \/ \E sessionID \in SessionKeys : GetDBExpired(sessionID)
    \/ \E sessionID \in SessionKeys : GetDBRenew(sessionID)

SpecRenewal == InitRenewal /\ [][NextRenewal]_vars

(***************************************************************************)
(* Properties of the consent proxy, checked under SpecHITL.                *)
(***************************************************************************)
\* C1: a tool call that needs approval is never forwarded to the upstream
\* server before an approve decision for its pending id has been recorded;
\* a call that was rejected, or that has no decision, is never forwarded.
\* In every state: a call the upstream server has received has a pending id
\* with a recorded decision, and every decision recorded for it is approve;
\* an invocation of handleApproval about to forward holds an approved call.
C1_ForwardOnlyApproved ==
    /\ \A c \in Calls :
          upstream[c] > 0 =>
              /\ worker[c].callID \in DOMAIN decided
              /\ \A i \in 1..Len(decided[worker[c].callID]) :
                    decided[worker[c].callID][i] = TRUE
    /\ \A a \in approver :
          a.pc = "forward" =>
              /\ a.pcall.ID \in DOMAIN decided
              /\ \A i \in 1..Len(decided[a.pcall.ID]) :
                    decided[a.pcall.ID][i] = TRUE

\* C1, its case: one call was approved and forwarded, another was rejected,
\* ran to its end and never reached the upstream server.
C1_Witness ==
    \E c \in Calls, d \in Calls :
        /\ upstream[c] > 0
        /\ worker[d].pc = "finished"
        /\ worker[d].callID \in DOMAIN decided
        /\ decided[worker[d].callID] = <<FALSE>>
        /\ worker[d].out = Rejected
        /\ upstream[d] = 0

\* C2: of the decisions sent for one pending id, at most one finds the entry
\* and takes it out of the queue; every other one is answered Not Found; an
\* id still in the queue has no decision.  In every state: an id has at most
\* one recorded decision; a decided id is not in the queue and is never
\* given out again, so a further decision on it finds no entry; an answer of
\* Not Found is for an id that is not in the queue.
C2_DecideOnce ==
    /\ \A id \in DOMAIN decided :
          /\ Len(decided[id]) = 1
          /\ id \notin DOMAIN callQueue
          /\ id \in 1..(nextCallID - 1)
    /\ \A id \in DOMAIN callQueue : id \notin DOMAIN decided
    /\ (last.op = "handleApproval" /\ last.http = 404) =>
           last.id \notin DOMAIN callQueue

\* C2, its case: a decision on an id that already has its decision was
\* answered Not Found.
C2_Witness ==
    /\ last.op = "handleApproval"
    /\ last.http = 404
    /\ last.id \in DOMAIN decided
    /\ Len(decided[last.id]) = 1

\* C10: when the constraint of a tool call evaluates to false or fails to
\* evaluate, the call fails at once: no pending call is made, no task id is
\* issued, the work function never runs.  The requests of RequestList whose
\* constraint does not hold are the add_task with a description of two
\* characters (size > 3 is false), the add_task without a description (the
\* expression reads a missing key) and the mark_task_done (the expression is
\* not a boolean).  Every step that answers one of them answers with the
\* constraint error and changes nothing of the engine or of the queue.
C10_ConstraintFailsFast ==
    [][ (last'.op = "proxy" /\ last'.rq \in {1, 3, 5}) =>
            /\ last'.reply.isError
            /\ last'.reply = (IF last'.rq = 1 THEN ConstraintFalse
                              ELSE ConstraintEvalError)
            /\ last'.call = 0
            /\ callQueue' = callQueue
            /\ nextCallID' = nextCallID
            /\ nextID' = nextID
            /\ tasks' = tasks
            /\ longRunningTasks' = longRunningTasks
            /\ worker' = worker
            /\ handler' = handler
            /\ upstream' = upstream
      ]_vars

\* C10, its case: while a call waits in the queue, a request whose
\* constraint is false was answered with the constraint error.
C10_Witness ==
    /\ last.op = "proxy"
    /\ last.rq = 1
    /\ last.reply = ConstraintFalse
    /\ callQueue # <<>>
    /\ \E c \in Calls : handler[c].pc = "idle"

\* the results a decision on the call in slot c can deliver
Outcome(c) ==
    IF worker[c].callID \notin DOMAIN decided THEN {}
    ELSE IF decided[worker[c].callID] = <<FALSE>> THEN {Rejected}
    ELSE {UpstreamResult(c), ForwardError}

\* C11, as stated: once a decision is made for a pending id whose waiter is
\* still blocked in its select (its context not cancelled), the task of the
\* call eventually is Done with
\* the outcome of the decision: the rejection on reject, the result of the
\* upstream server or the forward error on approve.
C11_DecisionDelivered ==
    \A c \in Calls :
        (/\ worker[c].pc = "select"
         /\ ~ctxDone[c]
         /\ worker[c].callID \in DOMAIN decided)
            ~> (tasks[c].status = "Done" /\ tasks[c].result \in Outcome(c))

\* C11, amended: once a decision is made for a pending id whose waiter is
\* still blocked, eventually the task of the call is Done with the outcome
\* of the decision, or the context of the call has been cancelled in the
\* meantime (the select may then take ctx.Done() and the task ends with the
\* cancellation).
C11_DeliveredUnlessCancelled ==
    \A c \in Calls :
        (/\ worker[c].pc = "select"
         /\ ~ctxDone[c]
         /\ worker[c].callID \in DOMAIN decided)
            ~> \/ tasks[c].status = "Done" /\ tasks[c].result \in Outcome(c)
               \/ ctxDone[c]

\* C11, its case: a call was rejected while its waiter was blocked, its
\* context was never cancelled, and its task is Done with the rejection.
C11_Witness ==
    \E c \in Calls :
        /\ worker[c].callID \in DOMAIN decided
        /\ decided[worker[c].callID] = <<FALSE>>
        /\ ~ctxDone[c]
        /\ tasks[c].status = "Done"
        /\ tasks[c].result = Rejected

\* C12: every call of handleApproval eventually completes, with a redirect
\* (the acknowledgement) or Not Found, whatever the state, the waiter of the
\* pending id having been cancelled included.  The invocations that answer
\* Bad Request or Not Found complete in their one step; an invocation that
\* took an entry out of the queue is in approver until it has answered: every
\* such invocation eventually leaves approver.
C12_DecideCompletes ==
    \A c \in Calls :
        (\E a \in approver : a.pcall.Request = c)
            ~> (\A a \in approver : a.pcall.Request # c)

C27_CancelKeepsEntry ==
    [][ /\ \A c \in Calls :
               (/\ worker[c].pc = "select"
                /\ worker'[c].pc = "finished"
                /\ worker'[c].out = Cancelled) =>
                   /\ ctxDone[c]
                   /\ tasks'[c].status = "Done"
                   /\ tasks'[c].result = Cancelled
                   /\ callQueue' = callQueue
                   /\ worker[c].callID \notin DOMAIN decided =>
                          /\ worker[c].callID \in DOMAIN callQueue'
                          /\ callQueue'[worker[c].callID].ResponseC = c
        /\ \A id \in DOMAIN callQueue :
               id \notin DOMAIN callQueue' =>
                   /\ id \in DOMAIN decided'
                   /\ id \notin DOMAIN decided
                   /\ \E a \in approver' \ approver : a.pcall = callQueue[id]
        /\ last'.op = "listPendingCalls" =>
               /\ last'.rows = {[ID |-> id, Request |-> callQueue[id].Request] :
                                   id \in DOMAIN callQueue}
               /\ callQueue' = callQueue
      ]_vars

\* C27, its case: a wait ended on its cancelled context with the Cancelled
\* result, nobody decided its call, and the approval page still lists it.
C27_Witness ==
    /\ last.op = "listPendingCalls"
    /\ \E c \in Calls :
           /\ worker[c].pc = "finished"
           /\ worker[c].out = Cancelled
           /\ tasks[c].result = Cancelled
           /\ worker[c].callID \notin DOMAIN decided
           /\ worker[c].callID \in DOMAIN callQueue
           /\ [ID |-> worker[c].callID, Request |-> c] \in last.rows

\* C28: a cancellation is surfaced to its own waiter only: cancelling one
\* waiter changes only that waiter's task; every other pendingCall and every
\* other task is unchanged and can still be decided and receive its result
\* normally.  Every step: the step that cancels the context of call c, and
\* the step in which the wait of c ends on it, leave the context, the
\* goroutine, the task and the handler of every other call, callQueue, the
\* decisions and the forwards as they are; and a wait whose own context is
\* not cancelled ends only with what a decision on its call sent, never with
\* Cancelled.
C28_CancelOnlyOwnWaiter ==
    [][\A c \in Calls :
          /\ ((~ctxDone[c] /\ ctxDone'[c]) \/
               (worker[c].pc = "select" /\ worker'[c].out = Cancelled)) =>
                 /\ \A d \in Calls \ {c} :
                        /\ ctxDone'[d] = ctxDone[d]
                        /\ worker'[d] = worker[d]
                        /\ tasks'[d] = tasks[d]
                        /\ handler'[d] = handler[d]
                 /\ UNCHANGED <<callQueue, nextCallID, approver, decided,
                                upstream, longRunningTasks>>
          /\ (/\ worker[c].pc = "select"
              /\ worker'[c].pc = "finished"
              /\ ~ctxDone[c]) =>
                 /\ worker'[c].out # Cancelled
                 /\ \E a \in approver :
                        /\ a.pcall.ResponseC = c
                        /\ worker'[c].out = a.val
                        /\ tasks'[c].result = a.val
      ]_vars

\* C28, its case: the wait of one call ended Cancelled, and another call,
\* its context not cancelled, was approved, forwarded and received the
\* upstream result.
C28_Witness ==
    \E c \in Calls, d \in Calls :
        /\ c # d
        /\ worker[c].pc = "finished"
        /\ worker[c].out = Cancelled
        /\ tasks[c].result = Cancelled
        /\ ~ctxDone[d]
        /\ worker[d].pc = "finished"
        /\ worker[d].out = UpstreamResult(d)
        /\ tasks[d].result = UpstreamResult(d)
        /\ upstream[d] = 1

\* C29: each invocation of the proxy handler that passes its constraint
\* eventually registers exactly one pendingCall; the ids of pendingCalls are
\* unique and assigned 1, 2, 3, ... in the order in which the registrations
\* take callQueueLock, with no repeats under concurrent registrations, and
\* an id is never reused after its entry is removed.  Every invocation that
\* has returned a task id leads to a registered call; in every state the ids
\* given out are exactly 1 .. nextCallID - 1, one per registered call, no
\* two calls share one, and each entry of callQueue sits under its own id
\* and belongs to the call that registered it; every registration takes the
\* id nextCallID, an id that no entry, decision or approver holds, adds the
\* one entry and advances the counter by one; and a registered call keeps
\* its id.
C29_RegistersOnceUniqueIds ==
    /\ \A c \in Calls :
           (handler[c].pc = "returned") ~> (worker[c].callID # 0)
    /\ [](LET registered == {c \in Calls : worker[c].callID # 0}
          IN  /\ {worker[c].callID : c \in registered} = 1..(nextCallID - 1)
              /\ Cardinality(registered) = nextCallID - 1
              /\ \A c \in registered, d \in registered :
                     worker[c].callID = worker[d].callID => c = d
              /\ \A c \in Calls :
                     worker[c].callID = 0 <=> worker[c].pc \in {"none", "register"}
              /\ \A id \in DOMAIN callQueue :
                     /\ callQueue[id].ID = id
                     /\ worker[callQueue[id].ResponseC].callID = id)
    /\ [][\A c \in Calls :
              /\ worker[c].callID # 0 => worker'[c].callID = worker[c].callID
              /\ (worker[c].callID = 0 /\ worker'[c].callID # 0) =>
                     LET id == worker'[c].callID
                     IN  /\ id = nextCallID
                         /\ nextCallID' = nextCallID + 1
                         /\ id \notin DOMAIN callQueue
                         /\ id \notin DOMAIN decided
                         /\ \A a \in approver : a.pcall.ID # id
                         /\ DOMAIN callQueue' = DOMAIN callQueue \cup {id}
                         /\ \A k \in DOMAIN callQueue :
                                callQueue'[k] = callQueue[k]
                         /\ callQueue'[id].Request = c
              /\ nextCallID' >= nextCallID]_vars

\* C29, its case: the first id was given out, its entry removed by a
\* decision, and the next registration took the next id, not the free one.
C29_Witness ==
    /\ nextCallID = 3
    /\ 1 \in DOMAIN decided
    /\ 1 \notin DOMAIN callQueue
    /\ 2 \in DOMAIN callQueue
    /\ callQueue[2].ID = 2
    /\ \A c \in Calls : worker[c].callID \in {1, 2}

\* C33: no operation ever holds more than one of the per-task lock t.mu,
\* callQueueLock and the session lock m.mu at the same time, so no
\* lock-ordering deadlock between them is reachable.  In every state: the
\* goroutine of a call holds at most one of callQueueLock and the t.mu of
\* its task; whoever holds callQueueLock is at the point between Lock and
\* Unlock of the registration, whoever holds t.mu is at the point between
\* Lock and Unlock of Run's goroutine, and from neither point is another
\* mutex taken before the Unlock; and m.mu, which belongs to the session
\* manager of another program, is held by nobody here.
C33_OneLockAtATime ==
    /\ mu = Free
    /\ callQueueLock \in {Free} \cup {<<"work", c>> : c \in Calls}
    /\ \A c \in Calls :
           LET held == (IF callQueueLock = <<"work", c>>
                        THEN {"callQueueLock"} ELSE {})
                       \cup (IF tasks[c].mu THEN {"t.mu"} ELSE {})
           IN  /\ Cardinality(held) <= 1
               /\ callQueueLock = <<"work", c>> <=> worker[c].pc = "queuelocked"
               /\ tasks[c].mu <=> worker[c].pc = "locked"

\* C33, its case: one goroutine holds callQueueLock to register its call
\* while another holds the t.mu of its task to set the result.
C33_Witness ==
    \E c \in Calls, d \in Calls :
        /\ callQueueLock = <<"work", c>>
        /\ worker[c].pc = "queuelocked"
        /\ ~tasks[c].mu
        /\ tasks[d].mu
        /\ worker[d].pc = "locked"
        /\ worker[d].out = Cancelled

\* C37: an approve decision forwards the held request to the upstream
\* server whether or not the waiter is still waiting: a call whose task has
\* already finished with the Cancelled result, or whose waiter is cancelled
\* while the forward is in flight, can still be executed upstream, and the
\* result of that task stays Cancelled.  Every step: an approve that finds
\* the entry holds the request for forwarding whatever its waiter does; the
\* forward hands the request to the upstream server once, whatever its
\* waiter does, and changes no task; and a task whose result is Cancelled
\* keeps that result.
C37_ApproveForwardsAfterCancel ==
    [][ /\ \A id \in DOMAIN callQueue :
               (/\ id \in DOMAIN decided'
                /\ id \notin DOMAIN decided
                /\ decided'[id] = <<TRUE>>) =>
                   \E a \in approver' \ approver :
                       /\ a.pcall = callQueue[id]
                       /\ a.pc = "forward"
        /\ \A a \in approver :
               (a.pc = "forward" /\ a \notin approver') =>
                   LET rq == a.pcall.Request
                   IN  /\ last'.op = "CallTool"
                       /\ last'.call = rq
                       /\ upstream'[rq] = upstream[rq] + 1
                       /\ tasks' = tasks
                       /\ worker' = worker
        /\ \A c \in Calls :
               tasks[c].result = Cancelled =>
                   /\ tasks'[c].result = Cancelled
                   /\ tasks'[c].status = "Done"
                   /\ worker'[c].out = Cancelled
      ]_vars

\* C37, its case: the task of a call finished with the Cancelled result,
\* the call was then approved and the request has just been executed
\* upstream; the result of the task is still Cancelled.
C37_Witness ==
    /\ last.op = "CallTool"
    /\ last.reply = UpstreamResult(last.call)
    /\ upstream[last.call] = 1
    /\ worker[last.call].pc = "finished"
    /\ worker[last.call].out = Cancelled
    /\ tasks[last.call].result = Cancelled
    /\ decided[worker[last.call].callID] = <<TRUE>>

\* C38: callQueueLock is released before the upstream call and before the
\* channel send, so a handleApproval that is blocked (forwarding, or sending
\* to a waiter that has gone) never prevents other registrations, other
\* decisions or the listing of pending calls from making progress.  In
\* every state no invocation of handleApproval that is past the removal of
\* its entry holds callQueueLock, and the only holder there can be is a
\* registration between its Lock and its Unlock; and every goroutine that
\* is to register its call does register it, whatever handleApproval is
\* blocked meanwhile.
C38_BlockedDecideHoldsNoLock ==
    /\ [](/\ \A a \in approver :
                callQueueLock # <<"handleApproval", a.pcall.ID>>
          /\ callQueueLock # Free =>
                \E c \in Calls : /\ callQueueLock = <<"work", c>>
                                 /\ worker[c].pc = "queuelocked")
    /\ \A c \in Calls :
           (worker[c].pc = "register") ~> (worker[c].callID # 0)

\* C38, its case: a handleApproval is blocked sending to a waiter that has
\* gone; another call has registered, and the listing of pending calls has
\* just run and shows it.
C38_Witness ==
    /\ last.op = "listPendingCalls"
    /\ \E a \in approver, d \in Calls :
           /\ a.pc = "send"
           /\ worker[a.pcall.ResponseC].pc = "finished"
           /\ worker[a.pcall.ResponseC].out = Cancelled
           /\ d # a.pcall.ResponseC
           /\ worker[d].pc = "select"
           /\ worker[d].callID > a.pcall.ID
           /\ [ID |-> worker[d].callID, Request |-> d] \in last.rows

\* C23: for each pending id, however the decisions on it interleave, the
\* held request is forwarded to the upstream server at most once and at most
\* one value is ever sent on its response channel, because the entry leaves
\* the queue under the lock before anything is delivered.  In every state:
\* the upstream server has received each call at most once; at most one
\* invocation of handleApproval holds the pending call of a waiter; while
\* one does, the entry is out of the queue, nothing has been delivered to
\* the waiter, and if it has yet to forward, nothing was forwarded.
C23_AtMostOneDelivery ==
    \A c \in Calls :
        /\ upstream[c] <= 1
        /\ Cardinality({a \in approver : a.pcall.ResponseC = c}) <= 1
        /\ \A a \in approver :
               a.pcall.ResponseC = c =>
                   /\ a.pcall.ID \notin DOMAIN callQueue
                   /\ worker[c].out \in {NilResult, Cancelled}
                   /\ a.pc = "forward" => upstream[c] = 0
                   /\ a.pc = "send" => upstream[c] = (IF a.val = Rejected THEN 0 ELSE 1)

\* C23, its case: a call was approved, forwarded once and its result
\* delivered; a further decision on the same id was answered Not Found.
C23_Witness ==
    /\ last.op = "handleApproval"
    /\ last.http = 404
    /\ \E c \in Calls :
           /\ worker[c].callID = last.id
           /\ worker[c].pc = "finished"
           /\ worker[c].out = UpstreamResult(c)
           /\ upstream[c] = 1

C15_SelectiveLro ==
    [][ /\ (last'.op \in {"proxy", "Run"} /\ last'.tool = "run_agent") =>
               /\ last'.op = "Run"
               /\ last'.call \in Tasks
               /\ tasks[last'.call] = NoTask
               /\ nextID' = nextID + 1
               /\ tasks'[last'.call].ID = FormatUint(nextID + 1)
               /\ tasks'[last'.call].status = "Pending"
               /\ worker'[last'.call].pc = "call"
        /\ (last'.op \in {"proxy", "Run"} /\
            last'.tool \in {"list_agents", "get_agent"}) =>
               /\ last'.op = "proxy"
               /\ last'.reply \in {UpstreamResult(0), ForwardError}
               /\ longRunningTasks' = longRunningTasks
               /\ tasks' = tasks
               /\ nextID' = nextID
               /\ worker' = worker
        /\ (last'.op = "proxy" /\ last'.call # 0) =>
               /\ last'.reply = TaskStarted(tasks[last'.call].ID)
               /\ tasks[last'.call].ID \in DOMAIN longRunningTasks'
               /\ longRunningTasks'[tasks[last'.call].ID] = last'.call
      ]_vars

\* C15, its case: with a task in the table, a call of the disabled tool was
\* forwarded and came back with the forward error.
C15_Witness ==
    /\ last.op = "proxy"
    /\ last.tool = "list_agents"
    /\ last.reply = ForwardError
    /\ longRunningTasks # <<>>

\* C24: every task id handed back by startLongRunningTask is already in the
\* table of tasks when it is returned, so a status check with a returned id
\* never reports an unknown task, even when the work finished before the
\* task was stored; only ids that were never returned are unknown.  Every
\* step: the step that returns an id leaves the task stored under it; the
\* task of every invocation that has returned is stored under its id; and a
\* check answered "unknown task ID" asked for an id no invocation returned.
C24_ReturnedIdRegistered ==
    [][ /\ (last'.op = "proxy" /\ last'.call # 0) =>
               /\ last'.reply = TaskStarted(tasks'[last'.call].ID)
               /\ tasks'[last'.call].ID \in DOMAIN longRunningTasks'
        /\ \A c \in Tasks :
               handler'[c].pc = "returned" =>
                   /\ tasks'[c].ID \in DOMAIN longRunningTasks'
                   /\ longRunningTasks'[tasks'[c].ID] = c
        /\ (last'.op = "checkLongRunningTaskHandler" /\
            last'.reply = UnknownTask(last'.task)) =>
               \A c \in Tasks :
                   handler[c].pc = "returned" => tasks[c].ID # last'.task
      ]_vars

\* C24, its case: the work of a task finished before the task was stored,
\* and the id was then returned with the task in the table.
C24_Witness ==
    /\ last.op = "proxy"
    /\ last.call # 0
    /\ worker[last.call].pc = "finished"
    /\ tasks[last.call].status = "Done"
    /\ tasks[last.call].ID \in DOMAIN longRunningTasks

\* C26: a status check that reads the status Pending waits the cooldown and
\* then always replies that the task is pending, without reading the status
\* again: it does not return the result even if the task became Done during
\* the cooldown, and the next status check then returns the result.  Every
\* step: a check enters the cooldown only on reading Pending; the step that
\* ends the cooldown replies "pending" for the id it was asked, whatever the
\* task is by then, and changes no task; and a check that starts on a Done
\* task replies at once with the task's result, the value the work returned.
C26_CooldownRepliesPending ==
    [][ /\ (poller.pc = "idle" /\ poller'.pc = "cooldown") =>
               /\ poller'.id \in DOMAIN longRunningTasks
               /\ tasks[longRunningTasks[poller'.id]].status = "Pending"
        /\ (poller.pc = "cooldown" /\ poller'.pc # "cooldown") =>
               /\ poller'.pc = "idle"
               /\ last'.op = "checkLongRunningTaskHandler"
               /\ last'.task = poller.id
               /\ last'.reply = TaskPending(poller.id)
               /\ ~last'.reply.isError
               /\ tasks' = tasks
        /\ (/\ poller.pc = "idle"
            /\ last'.op = "checkLongRunningTaskHandler"
            /\ last'.task \in DOMAIN longRunningTasks
            /\ tasks[longRunningTasks[last'.task]].status = "Done") =>
               LET c == longRunningTasks[last'.task]
               IN  /\ poller'.pc = "idle"
                   /\ last'.reply = tasks[c].result
                   /\ last'.reply = worker[c].out
                   /\ last'.reply # TaskPending(last'.task)
      ]_vars

\* C26, its case: the task became Done during the cooldown of a check, and
\* the check was still answered "pending".
C26_Witness ==
    /\ last.op = "checkLongRunningTaskHandler"
    /\ last.task \in DOMAIN longRunningTasks
    /\ last.reply = TaskPending(last.task)
    /\ tasks[longRunningTasks[last.task]].status = "Done"
    /\ tasks[longRunningTasks[last.task]].result # NilResult
    /\ poller.pc = "idle"

\* C35: the copy of the task engine in the long-running-tasks proxy and the
\* copy in the human-in-the-loop wrapper are observationally equivalent: for
\* the same sequence of starts, work completions and status checks they
\* issue the same ids and give the same replies.  After every such sequence
\* the two replies to the last call are equal, and the two copies have
\* issued the same ids, stored under them tasks of the same status and
\* result.
C35_CopiesEquivalent ==
    /\ last.lro = last.hitl
    /\ nextID = hitlEngine.nextID
    /\ DOMAIN longRunningTasks = DOMAIN hitlEngine.longRunningTasks
    /\ Len(tasks) = Len(hitlEngine.tasks)
    /\ \A id \in DOMAIN longRunningTasks :
           LET t == tasks[longRunningTasks[id]]
               u == hitlEngine.tasks[hitlEngine.longRunningTasks[id]]
           IN  /\ t.ID = id /\ u.ID = id
               /\ t.status = u.status
               /\ t.result = u.result

\* C35, its case: two tasks were started, the work of the first returned
\* and the second is pending; a check of the first got the same result from
\* both copies.
C35_Witness ==
    /\ Len(tasks) = 2
    /\ tasks[2].status = "Pending"
    /\ hitlEngine.tasks[2].status = "Pending"
    /\ last.op = "checkLongRunningTaskHandler"
    /\ last.task = tasks[1].ID
    /\ last.lro = UpstreamResult(1)
    /\ last.hitl = UpstreamResult(1)

C4_ResultIffDone ==
    [][ \A c \in Tasks :
            /\ ~tasks'[c].mu =>
                   ((tasks'[c].result # NilResult) <=> (tasks'[c].status = "Done"))
            /\ tasks[c].status = "Done" => tasks'[c].status = "Done"
            /\ tasks[c].result # NilResult => tasks'[c].result = tasks[c].result
            /\ (tasks[c].status \in {"Pending", "Done"} /\
                (tasks'[c].status # tasks[c].status \/
                 tasks'[c].result # tasks[c].result)) =>
                   (tasks[c].mu # tasks'[c].mu)
      ]_vars

\* C4, its case: one task is Done with its result and its lock free while
\* another is still Pending.
C4_Witness ==
    \E c \in Tasks, d \in Tasks :
        /\ tasks[c].status = "Done"
        /\ ~tasks[c].mu
        /\ tasks[c].result # NilResult
        /\ tasks[d].status = "Pending"
        /\ tasks[d].result = NilResult

\* C5: the ids of the tasks are unique and strictly increasing, whatever the
\* interleaving of the calls that start them.  The slots are taken in the
\* order of the calls of Run: of any two tasks, the one started later has a
\* different id, and its id is the larger number.
C5_UniqueIncreasingIds ==
    \A c \in Tasks, d \in Tasks :
        (c < d /\ tasks[d].status # "none") =>
            /\ tasks[c].status # "none"
            /\ tasks[c].ID # tasks[d].ID
            /\ ~Atoi(tasks[c].ID).err
            /\ ~Atoi(tasks[d].ID).err
            /\ Atoi(tasks[c].ID).val < Atoi(tasks[d].ID).val

\* C5, its case: two calls have each drawn an id and neither has stored its
\* task yet.
C5_Witness ==
    \E c \in Tasks, d \in Tasks :
        /\ c # d
        /\ handler[c].pc = "ran"
        /\ handler[d].pc = "ran"
        /\ tasks[c].ID # <<>>
        /\ tasks[d].ID # <<>>

(***************************************************************************)
(* Properties of the constraints proxy, checked under SpecPass.            *)
(***************************************************************************)
\* the tool of request rq has no constraint, or its constraint evaluates to
\* the boolean true on the arguments of rq
ConstraintHolds(rq) ==
    LET req == RequestList[rq]
        expr == constraints[req.name]
    IN  \/ expr = NoConstraint
        \/ LET out == CelEval(expr, req.args)
           IN  ~out.err /\ out.type = "bool" /\ out.bool

\* C20: in the constraints proxy a tool call is forwarded to the upstream
\* server if and only if its tool has no constraint or its constraint
\* evaluates to true; a constraint that evaluates to false, fails to evaluate
\* or yields a non-boolean rejects the call with an error result, and the
\* upstream server is not called.  Every step: a call the handler passes to
\* mcpClient.CallTool has a constraint that holds, and the upstream server
\* is called only so; a call whose constraint holds is never rejected; a
\* rejection carries an error result and leaves the upstream server alone.
C20_ForwardIffConstraint ==
    [][/\ \A rq \in Requests :
              upstream'[rq] # upstream[rq] =>
                  /\ ConstraintHolds(rq)
                  /\ upstream'[rq] = upstream[rq] + 1
                  /\ last'.op = "CallTool" /\ last'.rq = rq
       /\ last'.op = "CallTool" => ConstraintHolds(last'.rq)
       /\ (last'.op = "proxy" /\ last'.call = 0) =>
              /\ ~ConstraintHolds(last'.rq)
              /\ last'.reply.isError
              /\ last'.reply \in {ConstraintEvalError, ConstraintFalse}
              /\ upstream' = upstream
              /\ upstream[last'.rq] = 0
      ]_vars

\* C20, its case: a call whose constraint yields a non-boolean was rejected
\* and never reached the upstream server, which calls without constraint and
\* with a true constraint have reached.
C20_Witness ==
    /\ last.op = "proxy" /\ last.call = 0
    /\ CelEval(constraints[RequestList[last.rq].name],
               RequestList[last.rq].args).type = "string"
    /\ last.reply = ConstraintEvalError
    /\ upstream[last.rq] = 0
    /\ \E rq \in Requests :
           constraints[RequestList[rq].name] = NoConstraint /\ upstream[rq] > 0
    /\ \E rq \in Requests :
           constraints[RequestList[rq].name] # NoConstraint /\ upstream[rq] > 0

(***************************************************************************)
(* Properties of the tasks server, checked under SpecTasks.                *)
(***************************************************************************)
\* C21: update_task_status and mark_task_done called with an id that is not
\* in the task map return an error result and leave every existing task
\* (description, status updates, Done flag) unchanged.
C21_UnknownIdNoEffect ==
    [][(/\ last'.op \in UpdateTools
        /\ last'.idArg # <<>>
        /\ last'.idArg[1] \notin DOMAIN tasks)
           => /\ last'.reply.isError
              /\ tasks' = tasks]_vars

\* C36: in the tasks server, after any sequence of operations, the Done
\* flag of a task is set only by mark_task_done and is never cleared, tasks
\* are never removed, and each successful update_task_status or
\* mark_task_done appends exactly one status update to that task, leaving
\* its earlier updates and all other tasks unchanged.  Every step: each task
\* stays, with its ID and Description, and stays Done if it was; a task
\* becomes Done only in a successful mark_task_done on its id; a new task
\* comes from add_task and is not Done; a successful update of either kind
\* leaves the set of tasks and every other task as they were and extends
\* the updates of its task by one at the end; update_task_status leaves
\* Done as it was.
C36_DoneAndUpdates ==
    [][ /\ \A k \in DOMAIN tasks :
               /\ k \in DOMAIN tasks'
               /\ tasks'[k].ID = tasks[k].ID
               /\ tasks'[k].Description = tasks[k].Description
               /\ tasks[k].Done => tasks'[k].Done
               /\ (~tasks[k].Done /\ tasks'[k].Done) =>
                      /\ last'.op = "mark_task_done"
                      /\ last'.idArg = <<k>>
                      /\ ~last'.reply.isError
        /\ \A k \in DOMAIN tasks' \ DOMAIN tasks :
               /\ last'.op = "add_task"
               /\ ~tasks'[k].Done
               /\ tasks'[k].StatusUpdate = <<>>
        /\ (last'.op \in UpdateTools /\ ~last'.reply.isError) =>
               LET k == last'.idArg[1]
                   n == Len(tasks[k].StatusUpdate)
               IN  /\ k \in DOMAIN tasks
                   /\ DOMAIN tasks' = DOMAIN tasks
                   /\ \A j \in DOMAIN tasks \ {k} : tasks'[j] = tasks[j]
                   /\ Len(tasks'[k].StatusUpdate) = n + 1
                   /\ SubSeq(tasks'[k].StatusUpdate, 1, n) = tasks[k].StatusUpdate
                   /\ last'.op = "update_task_status" =>
                          tasks'[k].Done = tasks[k].Done
                   /\ last'.op = "mark_task_done" => tasks'[k].Done
      ]_vars

\* C36, its case: a task was marked done and then given a status update; it
\* is still Done with both updates, and another task is untouched.
C36_Witness ==
    /\ last.op = "update_task_status"
    /\ ~last.reply.isError
    /\ last.idArg[1] \in DOMAIN tasks
    /\ tasks[last.idArg[1]].Done
    /\ Len(tasks[last.idArg[1]].StatusUpdate) = 2
    /\ \E j \in DOMAIN tasks :
           /\ ~tasks[j].Done
           /\ tasks[j].StatusUpdate = <<>>

\* C21, its case: mark_task_done on an unknown id answered "unknown task"
\* while the map holds a task that has a status update and is done
C21_Witness ==
    /\ last.op = "mark_task_done"
    /\ last.idArg # <<>>
    /\ last.reply.kind = "unknown task with ID"
    /\ last.reply.isError
    /\ last.reply.id = last.idArg
    /\ last.idArg[1] \notin DOMAIN tasks
    /\ \E k \in DOMAIN tasks : tasks[k].Done /\ tasks[k].StatusUpdate # <<>>

(***************************************************************************)
(* Properties of the static JSON server, checked under SpecData.           *)
(***************************************************************************)
Min(a, b) == IF a < b THEN a ELSE b

\* the elements at indexes [lo, hi) of the array, in source order
Elements(array, lo, hi) == [i \in 1..(IF hi > lo THEN hi - lo ELSE 0) |-> array[lo + i]]

RECURSIVE Pages(_, _, _)
\* the pages p, p+1, ... of the array that paginate returns, concatenated,
\* up to the first page that starts behind the array
Pages(array, p, pageSize) ==
    IF p * pageSize >= Len(array) THEN <<>>
    ELSE paginate(array, p, pageSize).out \o Pages(array, p + 1, pageSize)

\* C22: for every page >= 0 and page_size >= 1, paginate returns exactly the
\* elements at indexes [page*page_size, min(len, (page+1)*page_size)) of the
\* array in source order, returns nothing when page*page_size >= len, and
\* the pages 0, 1, 2, ... concatenated give the whole array.
C22_PaginateExact ==
    [][(last'.op = "get_data" /\ last'.page >= 0 /\ last'.pageSize >= 1) =>
          LET n == Len(jsonArray)
              lo == last'.page * last'.pageSize
              hi == Min(n, (last'.page + 1) * last'.pageSize)
          IN  /\ ~last'.panic
              /\ last'.out = (IF lo >= n THEN <<>> ELSE Elements(jsonArray, lo, hi))
              /\ Pages(jsonArray, 0, last'.pageSize) = jsonArray]_vars

(***************************************************************************)
(* Properties of the session manager, checked under SpecSM.                *)
(***************************************************************************)
\* C6: GetDB never returns a handle for a session whose deadline has passed;
\* the session leaves the map the first time its expiry is seen, by an
\* access or by the sweep, and every later access fails.  Every step: a
\* GetDB on a session with now past its ExpiresAt returns an error and no
\* handle, and the session is gone; a sweep leaves no session past its
\* ExpiresAt; a GetDB on a key that is not in the map returns an error and no
\* handle; a key that left the map does not come back.
C6_ExpiredNeverServed ==
    [][ /\ \A k \in DOMAIN sessions :
               (now > sessions[k].ExpiresAt /\ last'.op = "GetDB" /\ last'.key = k) =>
                   /\ last'.err # ""
                   /\ last'.db = NoDB
                   /\ k \notin DOMAIN sessions'
        /\ last'.op = "cleanupExpired" =>
               \A k \in DOMAIN sessions :
                   now > sessions[k].ExpiresAt => k \notin DOMAIN sessions'
        /\ (last'.op = "GetDB" /\ last'.key \notin DOMAIN sessions) =>
               /\ last'.err # ""
               /\ last'.db = NoDB
        /\ \A k \in 1..idSeq :
               (k \notin DOMAIN sessions /\ \A cr \in creator : cr.sessionID # k) =>
                   k \notin DOMAIN sessions'
      ]_vars

\* C6, its case: an access found the session expired, returned the error and
\* the session is out of the map.
C6_Witness ==
    /\ last.op = "GetDB"
    /\ last.err = "session expired"
    /\ last.db = NoDB
    /\ last.key \notin DOMAIN sessions
    /\ last.key \in 1..idSeq

\* C16: sessions are cleaned up automatically: the database file of every
\* session that expires is eventually deleted, whichever of the access and
\* the sweep sees the expiry.  Whenever a session is in the map with the
\* clock past its ExpiresAt, its file is eventually gone.
C16_ExpiredFileDeleted ==
    \A k \in 1..MaxCreates :
        (k \in DOMAIN sessions /\ now > sessions[k].ExpiresAt)
            ~> (DbPath(k) \notin files)

\* C30: one pass of cleanupExpired removes from the map, and deletes the
\* backing file of, exactly the sessions whose ExpiresAt has passed at the
\* time of the pass; every session that has not expired keeps its map
\* entry, its file and its ExpiresAt.  Every step of cleanupExpired: the
\* sessions left are those whose ExpiresAt the clock has not passed, each
\* with the entry it had; the files left are those that were there less the
\* files of the sessions removed.
C30_SweepExactlyExpired ==
    [][last'.op = "cleanupExpired" =>
          LET passed == {id \in DOMAIN sessions : now > sessions[id].ExpiresAt}
          IN  /\ DOMAIN sessions' = DOMAIN sessions \ passed
              /\ \A id \in passed : sessions[id].Path \notin files'
              /\ \A id \in DOMAIN sessions \ passed :
                     /\ sessions'[id] = sessions[id]
                     /\ sessions'[id].ExpiresAt = sessions[id].ExpiresAt
                     /\ sessions[id].Path \in files
                            <=> sessions[id].Path \in files'
              /\ files' = files \ {sessions[id].Path : id \in passed}
      ]_vars

\* C30, its case: a pass has just removed an expired session and its file
\* and left a session that has not expired with its entry and its file.
C30_Witness ==
    /\ last.op = "cleanupExpired"
    /\ \E k \in DOMAIN deadline, j \in DOMAIN sessions :
           /\ k \notin DOMAIN sessions
           /\ DbPath(k) \notin files
           /\ now > deadline[k]
           /\ now <= sessions[j].ExpiresAt
           /\ sessions[j].Path \in files

\* C31: the sweep reclaims expired sessions regardless of access patterns:
\* a session that is never accessed again is eventually removed from the
\* map and its file deleted by the periodic sweep once its deadline has
\* passed, without any caller acting.  From every state in which a session
\* is in the map with a deadline the clock of the model can pass, either a
\* GetDB of that session follows, or a state follows in which the session is
\* out of the map and its file is gone.
C31_SweepReclaims ==
    \A k \in 1..MaxCreates :
        (k \in DOMAIN sessions /\ sessions[k].ExpiresAt < MaxTime)
            ~> \/ last.op = "GetDB" /\ last.key = k
               \/ k \notin DOMAIN sessions /\ DbPath(k) \notin files

\* C31, its case: a session registered at time 0 and not renewed since has
\* just been removed, with its file, by a pass of cleanupExpired.
C31_Witness ==
    /\ last.op = "cleanupExpired"
    /\ \E k \in DOMAIN deadline :
           /\ deadline[k] = Expiration
           /\ now > deadline[k]
           /\ k \notin DOMAIN sessions
           /\ DbPath(k) \notin files

\* C32: a concurrent GetDB and sweep on the same session are serialised by
\* the manager's single mutex: the outcome always equals one of the two
\* serial orders (the session is renewed and the sweep leaves it, or it is
\* evicted and GetDB fails); GetDB never returns a handle for a session the
\* same race has evicted.  Every step: while GetDB holds the mutex no other
\* operation changes the map or deletes a file, and the sweep runs only with the
\* mutex free; a GetDB that returns a handle leaves the session in the map,
\* renewed from the clock it read, with the file the handle is open on, and
\* a sweep at that clock would leave it; a GetDB that fails returns no
\* handle and leaves the session out of the map.
C32_GetDBSweepSerialised ==
    [][ /\ (mu = <<"GetDB">> /\ getter' = getter) =>
               /\ sessions' = sessions
               /\ files \subseteq files'
        /\ last'.op = "cleanupExpired" => (mu = Free /\ getter.pc = "idle")
        /\ (getter.pc # "idle" /\ getter'.pc = "idle") =>
               LET k == getter.key
               IN  /\ last'.op = "GetDB"
                   /\ last'.key = k
                   /\ mu' = Free
                   /\ IF last'.err = ""
                      THEN /\ k \in DOMAIN sessions'
                           /\ last'.db = sessions'[k].Path
                           /\ last'.db \in files'
                           /\ sessions'[k].ExpiresAt = getter.now + expiration
                           /\ k \notin Expired(sessions', getter.now)
                      ELSE /\ last'.db = NoDB
                           /\ k \notin DOMAIN sessions'
      ]_vars

\* C32, its case: the sweep was due while GetDB held the mutex on an expired
\* session; GetDB evicted the session and failed.
C32_Witness ==
    /\ last.op = "GetDB"
    /\ last.err = ErrSessionExpired
    /\ last.db = NoDB
    /\ now >= nextSweep
    /\ now > last.found
    /\ last.key \notin DOMAIN sessions
    /\ mu = Free

\* C34: the lazy eviction of an expired session by GetDB removes only the
\* entry of the map and leaves the backing file in place; the sweep is the
\* only operation that deletes backing files.  Every step: a GetDB answered
\* "session expired" takes exactly the entry of its key out of the map and
\* leaves every file, the file of that session included, where it is; and a
\* step after which a file is gone is a step of cleanupExpired.
C34_LazyEvictionKeepsFile ==
    [][ /\ (last'.op = "GetDB" /\ last'.err = ErrSessionExpired) =>
               /\ last'.key \in DOMAIN sessions
               /\ DOMAIN sessions' = DOMAIN sessions \ {last'.key}
               /\ \A k \in DOMAIN sessions' : sessions'[k] = sessions[k]
               /\ files' = files
               /\ sessions[last'.key].Path \in files'
        /\ (\E f \in files : f \notin files') => last'.op = "cleanupExpired"
      ]_vars

\* C34, its case: GetDB has just evicted an expired session; its entry is
\* gone and its file is still there.
C34_Witness ==
    /\ last.op = "GetDB"
    /\ last.err = ErrSessionExpired
    /\ last.key \in DOMAIN deadline
    /\ now > deadline[last.key]
    /\ last.key \notin DOMAIN sessions
    /\ DbPath(last.key) \in files

\* C39: in every reachable state each entry of the session map has an
\* existing backing file: CreateDatabase creates the file before it
\* registers the entry, and the sweep deletes file and entry together while
\* holding the lock.  In every state the Path of each session is the path
\* made from its id and names a file that exists, and so does the path of
\* each CreateDatabase that is about to register its session.
C39_EntryHasFile ==
    /\ \A k \in DOMAIN sessions :
           /\ sessions[k].Path = DbPath(k)
           /\ sessions[k].Path \in files
    /\ \A cr \in creator :
           /\ cr.dbPath = DbPath(cr.sessionID)
           /\ cr.dbPath \in files

\* C39, its case: CreateDatabase has just registered a session whose file
\* exists, after the sweep removed an earlier session with its file.
C39_Witness ==
    /\ last.op = "CreateDatabase"
    /\ last.key \in DOMAIN sessions
    /\ sessions[last.key].Path \in files
    /\ \E k \in DOMAIN deadline :
           /\ k # last.key
           /\ k \notin DOMAIN sessions
           /\ DbPath(k) \notin files

\* C40: once GetDB or the sweep has evicted a session, every later GetDB
\* with that key fails with the invalid-session error (not session-expired)
\* and the key never becomes valid again.  Every step from a state in which
\* a key that was registered is out of the map: the key is still out of the
\* map afterwards, and a GetDB with that key answers "invalid session" with
\* no handle.
C40_EvictedStaysInvalid ==
    [][\A k \in DOMAIN deadline :
          k \notin DOMAIN sessions =>
              /\ k \notin DOMAIN sessions'
              /\ (last'.op = "GetDB" /\ last'.key = k) =>
                     /\ last'.err = "invalid session"
                     /\ last'.err # "session expired"
                     /\ last'.db = NoDB]_vars

\* C40, its case: GetDB evicted an expired session (its file is still
\* there), and a later GetDB with the key has just answered "invalid
\* session".
C40_Witness ==
    /\ last.op = "GetDB"
    /\ last.err = "invalid session"
    /\ last.key \in DOMAIN deadline
    /\ last.key \notin DOMAIN sessions
    /\ DbPath(last.key) \in files
    /\ now > deadline[last.key]

\* C17: a session accessed after its deadline has passed always fails with
\* "session expired" and never returns a handle, whichever way the access
\* and the background sweep interleave.  Every GetDB of a session whose last
\* ExpiresAt lies before the clock answers ErrSessionExpired with no handle.
C17_AlwaysSessionExpired ==
    [][\A k \in DOMAIN deadline :
          (last'.op = "GetDB" /\ last'.key = k /\ now > deadline[k])
              => (last'.err = ErrSessionExpired /\ last'.db = NoDB)]_vars

\* C17 as the code has it: such an access never returns a handle; it fails
\* with "session expired" when it finds the entry, and with "invalid
\* session" when the sweep removed the entry first.
C17_ExpiredOrInvalid ==
    [][\A k \in DOMAIN deadline :
          (last'.op = "GetDB" /\ last'.key = k /\ now > deadline[k])
              => /\ last'.db = NoDB
                 /\ last'.err = (IF k \in DOMAIN sessions
                                 THEN ErrSessionExpired ELSE ErrInvalidSession)]_vars

\* C17: a session past its deadline was swept and then accessed
C17_Witness ==
    /\ last.op = "GetDB"
    /\ last.key \in DOMAIN deadline
    /\ now > deadline[last.key]
    /\ last.err = ErrInvalidSession
    /\ DbPath(last.key) \notin files

\* C19: with an expiration of 50ms, an access 25ms after the allocation
\* succeeds and renews the session, an access 60ms after that renewal
\* succeeds, and an access 120ms after the last successful access fails.
C19_RenewalScenario ==
    [][\A k \in DOMAIN sessions :
          (last'.op = "GetDB" /\ last'.key = k) =>
              /\ (sessions[k].LastAccess = 0 /\ now = Ms(25)) =>
                     /\ last'.err = "" /\ last'.db = sessions[k].Path
                     /\ sessions'[k].ExpiresAt = now + Ms(50)
              /\ (sessions[k].LastAccess = Ms(25) /\ now = Ms(25) + Ms(60)) =>
                     /\ last'.err = "" /\ last'.db = sessions[k].Path
              /\ (now = sessions[k].LastAccess + Ms(120)) =>
                     /\ last'.err # "" /\ last'.db = NoDB]_vars

\* C19 as the code has it: the renewal at 25ms moves the deadline to 75ms, so
\* the access 30ms after the renewal (the one the test makes) succeeds and
\* the access 60ms after it fails with "session expired".
C19_RenewalThenExpiry ==
    [][\A k \in DOMAIN sessions :
          (last'.op = "GetDB" /\ last'.key = k) =>
              /\ (sessions[k].LastAccess = 0 /\ now = Ms(25)) =>
                     /\ last'.err = "" /\ last'.db = sessions[k].Path
                     /\ sessions'[k].ExpiresAt = now + Ms(50)
              /\ (sessions[k].LastAccess = Ms(25) /\ now = Ms(25) + Ms(30)) =>
                     /\ last'.err = "" /\ last'.db = sessions[k].Path
              /\ (sessions[k].LastAccess = Ms(25) /\ now = Ms(25) + Ms(60)) =>
                     /\ last'.err = ErrSessionExpired /\ last'.db = NoDB
              /\ (now = sessions[k].LastAccess + Ms(120)) =>
                     /\ last'.err = ErrSessionExpired /\ last'.db = NoDB]_vars

\* C19: a session renewed at 25ms was accessed at 85ms, past its deadline of
\* 75ms, and the access failed
C19_Witness ==
    /\ last.op = "GetDB"
    /\ last.err = ErrSessionExpired
    /\ last.key \in DOMAIN deadline
    /\ deadline[last.key] = Ms(25) + Ms(50)
    /\ now = Ms(25) + Ms(60)

\* C18: a session is usable strictly before its ExpiresAt: a GetDB made at
\* an instant now >= ExpiresAt, now = ExpiresAt included, evicts the entry
\* and fails with "session expired" instead of renewing.
C18_EvictsFromDeadline ==
    [][\A k \in DOMAIN sessions :
          (last'.op = "GetDB" /\ last'.key = k /\ now >= sessions[k].ExpiresAt)
              => /\ last'.err = ErrSessionExpired
                 /\ last'.db = NoDB
                 /\ k \notin DOMAIN sessions']_vars

\* C18 as the code has it (now.After is strict): a GetDB at now > ExpiresAt
\* evicts the entry and fails with "session expired"; a GetDB at
\* now = ExpiresAt still succeeds and renews the session.
C18_EvictsAfterDeadline ==
    [][\A k \in DOMAIN sessions :
          (last'.op = "GetDB" /\ last'.key = k) =>
              /\ now > sessions[k].ExpiresAt =>
                     /\ last'.err = ErrSessionExpired
                     /\ last'.db = NoDB
                     /\ k \notin DOMAIN sessions'
              /\ now = sessions[k].ExpiresAt =>
                     /\ last'.err = ""
                     /\ last'.db = sessions[k].Path
                     /\ k \in DOMAIN sessions'
                     /\ sessions'[k].ExpiresAt = now + expiration]_vars

\* C18: a GetDB found the session exactly at its ExpiresAt and renewed it
C18_Witness ==
    /\ last.op = "GetDB"
    /\ last.found = now
    /\ last.err = ""
    /\ last.key \in DOMAIN sessions
    /\ sessions[last.key].ExpiresAt = now + expiration

\* C7: a successful GetDB moves the deadline of the session to the time of
\* the access plus the expiration, so accesses that each come less than the
\* expiration after the last successful one all succeed.  Every step: a
\* GetDB that succeeds leaves the session with LastAccess = now and
\* ExpiresAt = now + Expiration; a GetDB on a session last accessed less
\* than Expiration ago succeeds with its database; and such a session is
\* not removed by any step.
C7_AccessRenews ==
    [][ /\ (last'.op = "GetDB" /\ last'.err = "") =>
               /\ last'.key \in DOMAIN sessions'
               /\ sessions'[last'.key].LastAccess = now
               /\ sessions'[last'.key].ExpiresAt = now + Expiration
               /\ last'.db = DbPath(last'.key)
        /\ \A k \in DOMAIN sessions :
               now < sessions[k].LastAccess + Expiration =>
                   /\ k \in DOMAIN sessions'
                   /\ (last'.op = "GetDB" /\ last'.key = k) =>
                          /\ last'.err = ""
                          /\ last'.db = DbPath(k)
      ]_vars

\* C7, its case: well after the start, an access succeeded and the session
\* has its new deadline, the time of the access plus the expiration.
C7_Witness ==
    /\ last.op = "GetDB"
    /\ last.err = ""
    /\ last.key \in DOMAIN sessions
    /\ sessions[last.key].ExpiresAt = now + Expiration
    /\ now > Expiration

\* C8: GetDB on a key that is not in the map returns the invalid-session
\* error and no handle, and changes neither the map nor the files.
C8_UnknownKey ==
    [][ (last'.op = "GetDB" /\ last'.key \notin DOMAIN sessions) =>
            /\ last'.err = "invalid session"
            /\ last'.db = NoDB
            /\ sessions' = sessions
            /\ files' = files
      ]_vars

\* C8, its case: with a session in the map, a GetDB on a key that was never
\* generated returned the invalid-session error.
C8_Witness ==
    /\ last.op = "GetDB"
    /\ last.key = 0
    /\ last.err = "invalid session"
    /\ sessions # <<>>
    /\ files # {}

\* C9: CreateDatabase creates the file of the database, registers the key
\* with the deadline now + expiration (now: the clock as CreateDatabase read
\* it) and returns the key; a GetDB on the key before that deadline
\* succeeds.  Every step: a CreateDatabase that returns a key returns a new
\* one, its file exists, the map holds it with the path of the file and the
\* deadline; a GetDB on a session before its deadline returns its database.
C9_CreateRegisters ==
    [][ /\ (last'.op = "CreateDatabase" /\ last'.err = "") =>
               LET k == last'.key
               IN  /\ k \notin DOMAIN sessions
                   /\ k \in DOMAIN sessions'
                   /\ DbPath(k) \in files'
                   /\ sessions'[k].Path = DbPath(k)
                   /\ \E cr \in creator :
                         /\ cr.sessionID = k
                         /\ cr.now <= now
                         /\ sessions'[k].ExpiresAt = cr.now + Expiration
                   /\ sessions' = [j \in DOMAIN sessions \cup {k} |->
                                      IF j = k THEN sessions'[k] ELSE sessions[j]]
        /\ \A k \in DOMAIN sessions :
               (now < sessions[k].ExpiresAt /\ last'.op = "GetDB" /\ last'.key = k) =>
                   /\ last'.err = ""
                   /\ last'.db = sessions[k].Path
      ]_vars

\* C9, its case: CreateDatabase returned a key; the session is in the map
\* with its deadline ahead and its file exists.
C9_Witness ==
    /\ last.op = "CreateDatabase"
    /\ last.err = ""
    /\ last.key \in DOMAIN sessions
    /\ DbPath(last.key) \in files
    /\ now < sessions[last.key].ExpiresAt

====
